---- MODULE Spec2Model ----
(***************************************************************************)
(* Parameter detection and interactive customization of how-to-cli         *)
(* (src/parameters.py), together with its caller, the command-selection    *)
(* loop of src/how.py and src/interactive.py.                              *)
(*                                                                         *)
(* A command is a sequence of one-character strings; positions are the     *)
(* 0-based offsets of the Python code, spans are half-open [start, end).   *)
(* The regular expressions of the detector are modelled by what            *)
(* re.finditer does with them: leftmost match, greedy quantifiers with     *)
(* backtracking, scanning resumed at the end of the previous match.        *)
(*                                                                         *)
(* Further components, each with a specification of its own: the selection *)
(* parser and the command runner of src/executor.py, the job manager of    *)
(* src/background.py and the configuration of src/config.py.               *)
(***************************************************************************)
EXTENDS Integers, Sequences, FiniteSets, TLC

VARIABLES
    command,        \* selected_command.command, the base string (how.py:310)
    preset,         \* selected_command.parameters, the external hints (how.py:303)
    pc,             \* where the program is: the view shown or the call in progress
    detected,       \* result of detect_parameters(command) (parameters.py:471)
    parameters,     \* the list customize_command hands to _navigate_parameters
    selected_param_index,   \* parameters.py:528
    new_values,     \* the edit map, parameters.py:529
    prefill,        \* initial content of the text entry while editing
    preview,        \* plain text of the preview last printed (_build_live_command)
    result,         \* what customize_command returned last (reset when it is called)
    executed,       \* the command text handed to minimal_executor.execute_command
    copied,         \* the text last placed on the clipboard
    exited,         \* how the program ended, "" while it runs
    cands,          \* argument of _deduplicate_parameters (SpecDedup)
    deduped,        \* its return value
    terminal,       \* the terminal modes the session has set (escape codes, termios)
    spawned,        \* whether the session has started a process (os.system)
    reader,         \* the key read in progress: _get_key's input, position, result
    selection,      \* a call of CommandExecutor._parse_selection (executor.py:373)
    cwd,            \* the working directory of the process (os.getcwd, os.chdir)
    threads,        \* the threads that are in _execute_single_command or in a worker loop
    jobs,           \* JobManager.jobs: the BackgroundJob of each job id
    job_queue,      \* JobManager.job_queue
    config          \* the dict objects of config.py: DEFAULT_CONFIG and the instances

\* the variables of executor.py, background.py and config.py
outside == <<selection, cwd, threads, jobs, job_queue, config>>

vars == <<command, preset, pc, detected, parameters, selected_param_index,
          new_values, prefill, preview, result, executed, copied, exited,
          cands, deduped, terminal, spawned, reader, selection, cwd, threads,
          jobs, job_queue, config>>

-----------------------------------------------------------------------------
(* Bounds *)

MaxTokens == 3

MaxSessionLen == 8

MaxPos == 2

MaxCands == 3

\* the largest number of key presses and paste markers that have arrived
\* when a key read starts
MaxChunks == 2

\* the largest number written in a selection and the largest number of
\* commands to select from
MaxNumber == 3

\* the largest number of comma-separated items of a selection
MaxItems == 2

-----------------------------------------------------------------------------
(* Python values *)

\* Optional values: None is <<>>, a present value x is <<x>>
None == <<>>

Some(x) == <<x>>

Max(S) == CHOOSE x \in S : \A y \in S : y <= x

Min(S) == CHOOSE x \in S : \A y \in S : x <= y

\* s[i] of Python, 0 <= i < len(s)
At(s, i) == s[i + 1]

\* Python's slice index normalisation: negative indices count from the end,
\* everything is clamped to 0..len
SliceIndex(i, n) ==
    IF i < 0 THEN (IF i + n < 0 THEN 0 ELSE i + n)
    ELSE IF i > n THEN n ELSE i

\* s[a:b] of Python
Slice(s, a, b) ==
    LET lo == SliceIndex(a, Len(s))
        hi == SliceIndex(b, Len(s))
    IN  IF hi <= lo THEN <<>> ELSE SubSeq(s, lo + 1, hi)

\* s[a:] of Python
SliceFrom(s, a) == Slice(s, a, Len(s))

\* s[:b] of Python
SliceTo(s, b) == Slice(s, 0, b)

-----------------------------------------------------------------------------
(* Character classes of the re module *)

Digits == {"0", "1", "2", "3", "4", "5", "6", "7", "8", "9"}

Letters == {"a", "b", "c", "d", "e", "f", "g", "h", "i", "j", "k", "l", "m",
            "n", "o", "p", "q", "r", "s", "t", "u", "v", "w", "x", "y", "z"}

Quotes == {"\"", "'"}

Spaces == {" ", "\t", "\n"}

WordChars == Letters \cup Digits \cup {"_"}

\* \s
IsSpace(c) == c \in Spaces

\* \w
IsWord(c) == c \in WordChars

\* \b at offset i: exactly one of s[i-1], s[i] is a word character
WordBoundary(s, i) ==
    LET before == i > 0 /\ IsWord(At(s, i - 1))
        after  == i < Len(s) /\ IsWord(At(s, i))
    IN  before # after

\* s.startswith(w, i)
HasPrefixAt(s, i, w) ==
    /\ i >= 0
    /\ i + Len(w) <= Len(s)
    /\ \A k \in 1..Len(w) : s[i + k] = w[k]

\* sub in s
Contains(s, sub) == \E i \in 0..Len(s) : HasPrefixAt(s, i, sub)

\* end of the longest run of characters of the set C starting at offset i:
\* what a greedy [C]* consumes
RECURSIVE RunIn(_, _, _)
RunIn(s, i, C) ==
    IF i < Len(s) /\ At(s, i) \in C THEN RunIn(s, i + 1, C) ELSE i

\* end of the longest run of characters outside the set C starting at
\* offset i: what a greedy [^C]* consumes
RECURSIVE RunNotIn(_, _, _)
RunNotIn(s, i, C) ==
    IF i < Len(s) /\ At(s, i) \notin C THEN RunNotIn(s, i + 1, C) ELSE i

\* a match object: the span of the whole match and of the group that holds
\* the value; me = -1 when the pattern does not match at the offset
NoMatch == [ms |-> -1, me |-> -1, gs |-> -1, ge |-> -1]

Match(ms, me, gs, ge) == [ms |-> ms, me |-> me, gs |-> gs, ge |-> ge]

\* re.finditer: m[i] is the match starting at offset i (NoMatch if none);
\* the scan takes the leftmost match and resumes at its end
RECURSIVE FindIter(_, _, _)
FindIter(m, i, n) ==
    IF i >= n THEN <<>>
    ELSE IF m[i].me < 0 THEN FindIter(m, i + 1, n)
    ELSE <<m[i]>> \o FindIter(m, m[i].me, n)

-----------------------------------------------------------------------------
(* Span catalog *)

ExtGroups == <<
    << <<"m", "p", "4">>, <<"a", "v", "i">>, <<"m", "k", "v">>, <<"m", "o", "v">>, <<"w", "m", "v">>, <<"f", "l", "v">>, <<"w", "e", "b", "m">>, <<"m", "4", "v">> >>,
    << <<"m", "p", "3">>, <<"w", "a", "v">>, <<"f", "l", "a", "c">>, <<"a", "a", "c">>, <<"o", "g", "g">>, <<"m", "4", "a">> >>,
    << <<"j", "p", "g">>, <<"j", "p", "e", "g">>, <<"p", "n", "g">>, <<"g", "i", "f">>, <<"b", "m", "p">>, <<"s", "v", "g">>, <<"w", "e", "b", "p">> >>,
    << <<"t", "x", "t">>, <<"m", "d">>, <<"d", "o", "c">>, <<"d", "o", "c", "x">>, <<"p", "d", "f">>, <<"r", "t", "f">> >>,
    << <<"c", "s", "v">>, <<"j", "s", "o", "n">>, <<"x", "m", "l">>, <<"y", "a", "m", "l">>, <<"y", "m", "l">> >>,
    << <<"p", "y">>, <<"j", "s">>, <<"h", "t", "m", "l">>, <<"c", "s", "s">>, <<"c", "p", "p">>, <<"j", "a", "v", "a">>, <<"g", "o">> >>,
    << <<"t", "a", "r">>, <<"z", "i", "p">>, <<"g", "z">>, <<"b", "z", "2">>, <<"x", "z">>, <<"7", "z">> >> >>

PathKeywords == <<
    <<"i", "n", "p", "u", "t">>,
    <<"o", "u", "t", "p", "u", "t">>,
    <<"s", "r", "c">>,
    <<"d", "e", "s", "t">>,
    <<"s", "o", "u", "r", "c", "e">>,
    <<"d", "e", "s", "t", "i", "n", "a", "t", "i", "o", "n">>,
    <<"f", "i", "l", "e">>,
    <<"p", "a", "t", "h">>,
    <<"d", "i", "r">>,
    <<"d", "i", "r", "e", "c", "t", "o", "r", "y">> >>

OptionFlags == <<
    <<"-", "-", "f", "r", "a", "m", "e", "-", "n", "u", "m", "b", "e", "r">>,
    <<"-", "-", "o", "u", "t", "p", "u", "t">>,
    <<"-", "-", "h", "e", "i", "g", "h", "t">>,
    <<"-", "-", "i", "n", "p", "u", "t">>,
    <<"-", "-", "f", "r", "a", "m", "e">>,
    <<"-", "-", "w", "i", "d", "t", "h">>,
    <<"-", "-", "t", "i", "m", "e">>,
    <<"-", "-", "r", "a", "t", "e">>,
    <<"-", "-", "o", "u", "t">>,
    <<"-", "-", "f", "p", "s">>,
    <<"-", "-", "i", "n">>,
    <<"-", "s", "s">>,
    <<"-", "t", "o">>,
    <<"-", "i">>,
    <<"-", "o">>,
    <<"-", "n">>,
    <<"-", "s">> >>

SkipExtensions == << <<".", "m", "p", "4">>, <<".", "t", "x", "t">>, <<".", "j", "p", "g">> >>

-----------------------------------------------------------------------------
(* Parameter *)

\* The dataclass Parameter without name, suggestions and description, which
\* no operation on spans reads. strategy records which code path built the
\* parameter; the program does not store it.
Parameter(original_value, start_pos, end_pos, param_type, strategy) ==
    [original_value |-> original_value, start_pos |-> start_pos,
     end_pos |-> end_pos, param_type |-> param_type, strategy |-> strategy]

\* the overlap test of _find_file_parameters on a span and a parameter
SpanOverlaps(start_pos, end_pos, p) ==
    ~(end_pos <= p.start_pos \/ start_pos >= p.end_pos)

-----------------------------------------------------------------------------
(* Strategy 1: files by extension *)

\* ["']([^"'\s]+\.(ext|...))["'] at offset i
QuotedFileAt(s, i, g) ==
    IF At(s, i) \notin Quotes THEN NoMatch
    ELSE
      LET r == RunNotIn(s, i + 1, Spaces \cup Quotes)
      IN  IF /\ r < Len(s)
             /\ At(s, r) \in Quotes
             /\ \E k \in 1..Len(g) :
                   /\ r - Len(g[k]) - 1 >= i + 2
                   /\ At(s, r - Len(g[k]) - 1) = "."
                   /\ HasPrefixAt(s, r - Len(g[k]), g[k])
          THEN Match(i, r + 1, i + 1, r)
          ELSE NoMatch

\* (?<!["'])\b([^\s"']+\.(ext|...))\b(?!["']) at offset i: the greedy
\* [^\s"']+ backtracks to the last dot after which an extension of the group
\* ends at a word boundary not followed by a quote
UnquotedFileAt(s, i, g) ==
    IF ~((i = 0 \/ At(s, i - 1) \notin Quotes) /\ WordBoundary(s, i))
    THEN NoMatch
    ELSE
      LET r == RunNotIn(s, i, Spaces \cup Quotes)
          Fits(d, e) ==
              /\ At(s, d) = "."
              /\ HasPrefixAt(s, d + 1, e)
              /\ d + 1 + Len(e) <= r
              /\ WordBoundary(s, d + 1 + Len(e))
              /\ (d + 1 + Len(e) = Len(s) \/ At(s, d + 1 + Len(e)) \notin Quotes)
          D == {d \in (i + 1)..(r - 1) : \E k \in 1..Len(g) : Fits(d, g[k])}
      IN  IF D = {} THEN NoMatch
          ELSE LET d == Max(D)
                   k == Min({x \in 1..Len(g) : Fits(d, g[x])})
                   j == d + 1 + Len(g[k])
               IN  Match(i, j, i, j)

\* the parameters of a list of matches, group 1 as the value
RECURSIVE FileParams(_, _, _)
FileParams(s, ms, strategy) ==
    IF ms = <<>> THEN <<>>
    ELSE <<Parameter(Slice(s, Head(ms).gs, Head(ms).ge), Head(ms).gs,
                     Head(ms).ge, "file", strategy)>>
         \o FileParams(s, Tail(ms), strategy)

\* the loop over the unquoted matches: a match that overlaps a parameter
\* found so far is skipped
RECURSIVE AddUnquoted(_, _)
AddUnquoted(acc, ps) ==
    IF ps = <<>> THEN acc
    ELSE LET p == Head(ps)
         IN  IF \E k \in 1..Len(acc) : SpanOverlaps(p.start_pos, p.end_pos, acc[k])
             THEN AddUnquoted(acc, Tail(ps))
             ELSE AddUnquoted(Append(acc, p), Tail(ps))

RECURSIVE FileGroupsFrom(_, _, _)
FileGroupsFrom(s, gi, acc) ==
    IF gi > Len(ExtGroups) THEN acc
    ELSE
      LET g == ExtGroups[gi]
          quoted == FindIter([i \in 0..(Len(s) - 1) |-> QuotedFileAt(s, i, g)],
                             0, Len(s))
          unquoted == FindIter([i \in 0..(Len(s) - 1) |-> UnquotedFileAt(s, i, g)],
                               0, Len(s))
      IN  FileGroupsFrom(s, gi + 1,
              AddUnquoted(acc \o FileParams(s, quoted, "file_quoted"),
                          FileParams(s, unquoted, "file_unquoted")))

find_file_parameters(s) == FileGroupsFrom(s, 1, <<>>)

-----------------------------------------------------------------------------
(* Strategy 2: placeholders *)

\* open [^close]+ close at offset i, for \{[^}]+\}, <[^>]+> and \[[^\]]+\]
DelimitedAt(s, i, open, close) ==
    IF At(s, i) # open THEN NoMatch
    ELSE LET r == RunNotIn(s, i + 1, {close})
         IN  IF r > i + 1 /\ r < Len(s)
             THEN Match(i, r + 1, i, r + 1)
             ELSE NoMatch

\* \$\w+ at offset i
DollarAt(s, i) ==
    IF At(s, i) # "$" THEN NoMatch
    ELSE LET r == RunIn(s, i + 1, WordChars)
         IN  IF r > i + 1 THEN Match(i, r, i, r) ELSE NoMatch

\* the parameters of a list of matches, the whole match as the value
RECURSIVE MatchParams(_, _, _, _)
MatchParams(s, ms, param_type, strategy) ==
    IF ms = <<>> THEN <<>>
    ELSE <<Parameter(Slice(s, Head(ms).ms, Head(ms).me), Head(ms).ms,
                     Head(ms).me, param_type, strategy)>>
         \o MatchParams(s, Tail(ms), param_type, strategy)

\* the parameters of a list of matches, the value group as value and span
RECURSIVE GroupParams(_, _, _, _)
GroupParams(s, ms, param_type, strategy) ==
    IF ms = <<>> THEN <<>>
    ELSE <<Parameter(Slice(s, Head(ms).gs, Head(ms).ge), Head(ms).gs,
                     Head(ms).ge, param_type, strategy)>>
         \o GroupParams(s, Tail(ms), param_type, strategy)

find_placeholder_parameters(s) ==
    LET n == Len(s)
        D == 0..(n - 1)
    IN  MatchParams(s, FindIter([i \in D |-> DelimitedAt(s, i, "{", "}")], 0, n),
                    "placeholder", "placeholder")
        \o MatchParams(s, FindIter([i \in D |-> DelimitedAt(s, i, "<", ">")], 0, n),
                       "placeholder", "placeholder")
        \o MatchParams(s, FindIter([i \in D |-> DelimitedAt(s, i, "[", "]")], 0, n),
                       "placeholder", "placeholder")
        \o MatchParams(s, FindIter([i \in D |-> DollarAt(s, i)], 0, n),
                       "placeholder", "placeholder")

-----------------------------------------------------------------------------
(* Strategy 3: path after keyword *)

\* \b(input|...|directory)\b\s+([^\s]+) at offset i; group 2 is the token
PathKeywordAt(s, i) ==
    IF ~WordBoundary(s, i) THEN NoMatch
    ELSE
      LET Fits(k) ==
              LET e == i + Len(PathKeywords[k])
              IN  /\ HasPrefixAt(s, i, PathKeywords[k])
                  /\ WordBoundary(s, e)
                  /\ RunIn(s, e, Spaces) > e
                  /\ RunNotIn(s, RunIn(s, e, Spaces), Spaces) > RunIn(s, e, Spaces)
          K == {k \in 1..Len(PathKeywords) : Fits(k)}
      IN  IF K = {} THEN NoMatch
          ELSE LET e == i + Len(PathKeywords[Min(K)])
                   t == RunIn(s, e, Spaces)
               IN  Match(i, RunNotIn(s, t, Spaces), t, RunNotIn(s, t, Spaces))

\* the loop of _find_path_parameters: a token that contains .mp4, .txt or
\* .jpg is skipped
RECURSIVE PathParams(_, _)
PathParams(s, ms) ==
    IF ms = <<>> THEN <<>>
    ELSE LET path_value == Slice(s, Head(ms).gs, Head(ms).ge)
         IN  IF \E k \in 1..Len(SkipExtensions) : Contains(path_value, SkipExtensions[k])
             THEN PathParams(s, Tail(ms))
             ELSE <<Parameter(path_value, Head(ms).gs, Head(ms).ge, "path", "path")>>
                  \o PathParams(s, Tail(ms))

find_path_parameters(s) ==
    PathParams(s, FindIter([i \in 0..(Len(s) - 1) |-> PathKeywordAt(s, i)], 0, Len(s)))

-----------------------------------------------------------------------------
(* Strategy 4: flag values *)

\* end of "[^"]+"|'[^']+'|[^\s]+ at offset p, -1 when it does not match
ValueEnd(s, p) ==
    IF p >= Len(s) THEN -1
    ELSE
      LET dq == RunNotIn(s, p + 1, {"\""})
          sq == RunNotIn(s, p + 1, {"'"})
      IN  IF At(s, p) = "\"" /\ dq > p + 1 /\ dq < Len(s) THEN dq + 1
          ELSE IF At(s, p) = "'" /\ sq > p + 1 /\ sq < Len(s) THEN sq + 1
          ELSE IF ~IsSpace(At(s, p)) THEN RunNotIn(s, p, Spaces)
          ELSE -1

\* (flag)=(val) at offset i: the first flag of the alternation, longest
\* first, after which = and a value follow
OptionEqAt(s, i) ==
    LET Fits(k) ==
            LET e == i + Len(OptionFlags[k])
            IN  /\ HasPrefixAt(s, i, OptionFlags[k])
                /\ e < Len(s)
                /\ At(s, e) = "="
                /\ ValueEnd(s, e + 1) >= 0
        K == {k \in 1..Len(OptionFlags) : Fits(k)}
    IN  IF K = {} THEN NoMatch
        ELSE LET v == i + Len(OptionFlags[Min(K)]) + 1
             IN  Match(i, ValueEnd(s, v), v, ValueEnd(s, v))

\* (flag)\s+(val) at offset i
OptionSpAt(s, i) ==
    LET Fits(k) ==
            LET e == i + Len(OptionFlags[k])
            IN  /\ HasPrefixAt(s, i, OptionFlags[k])
                /\ RunIn(s, e, Spaces) > e
                /\ ValueEnd(s, RunIn(s, e, Spaces)) >= 0
        K == {k \in 1..Len(OptionFlags) : Fits(k)}
    IN  IF K = {} THEN NoMatch
        ELSE LET v == RunIn(s, i + Len(OptionFlags[Min(K)]), Spaces)
             IN  Match(i, ValueEnd(s, v), v, ValueEnd(s, v))

find_option_parameters(s) ==
    LET n == Len(s)
        D == 0..(n - 1)
    IN  GroupParams(s, FindIter([i \in D |-> OptionEqAt(s, i)], 0, n),
                    "option", "option_eq")
        \o GroupParams(s, FindIter([i \in D |-> OptionSpAt(s, i)], 0, n),
                       "option", "option_sp")

-----------------------------------------------------------------------------
(* Strategy 5: timecodes and frame numbers *)

\* \b\d{1,2}:\d{2}:\d{2}(?:\.\d+)?\b at offset i
TimecodeAt(s, i) ==
    IF ~WordBoundary(s, i) THEN NoMatch
    ELSE
      LET \* end of :\d{2}:\d{2} started at offset c, -1 when it does not match
          Tail6(c) ==
              IF /\ c + 6 <= Len(s)
                 /\ At(s, c) = ":" /\ At(s, c + 1) \in Digits /\ At(s, c + 2) \in Digits
                 /\ At(s, c + 3) = ":" /\ At(s, c + 4) \in Digits /\ At(s, c + 5) \in Digits
              THEN c + 6 ELSE -1
          \* the end with the greedy fraction, else without it, at a boundary
          End(e) ==
              LET f == IF e < Len(s) /\ At(s, e) = "." THEN RunIn(s, e + 1, Digits) ELSE e
              IN  IF f > e + 1 /\ WordBoundary(s, f) THEN f
                  ELSE IF WordBoundary(s, e) THEN e
                  ELSE -1
          Hours(h) ==
              /\ i + h <= Len(s)
              /\ \A k \in 0..(h - 1) : At(s, i + k) \in Digits
              /\ Tail6(i + h) >= 0
              /\ End(Tail6(i + h)) >= 0
      IN  IF Hours(2) THEN Match(i, End(Tail6(i + 2)), i, End(Tail6(i + 2)))
          ELSE IF Hours(1) THEN Match(i, End(Tail6(i + 1)), i, End(Tail6(i + 1)))
          ELSE NoMatch

\* (?:\bframe\b\s*[=:]?\s*(\d+))|(?:\bn\s*=\s*(\d+)) at offset i; the group
\* is the digits, the match the whole text from the keyword on
FrameAt(s, i) ==
    IF ~WordBoundary(s, i) THEN NoMatch
    ELSE
      LET frame == <<"f", "r", "a", "m", "e">>
          a1 == RunIn(s, i + 5, Spaces)
          a2 == IF a1 < Len(s) /\ At(s, a1) \in {"=", ":"} THEN a1 + 1 ELSE a1
          a3 == RunIn(s, a2, Spaces)
          b1 == RunIn(s, i + 1, Spaces)
          b3 == RunIn(s, b1 + 1, Spaces)
      IN  IF /\ HasPrefixAt(s, i, frame)
             /\ WordBoundary(s, i + 5)
             /\ RunIn(s, a3, Digits) > a3
          THEN Match(i, RunIn(s, a3, Digits), a3, RunIn(s, a3, Digits))
          ELSE IF /\ HasPrefixAt(s, i, <<"n">>)
                  /\ b1 < Len(s)
                  /\ At(s, b1) = "="
                  /\ RunIn(s, b3, Digits) > b3
          THEN Match(i, RunIn(s, b3, Digits), b3, RunIn(s, b3, Digits))
          ELSE NoMatch

\* the Frame parameters: the value is the digit group, the span is
\* match.start() .. match.start() + len(match.group(0))
RECURSIVE FrameParams(_, _)
FrameParams(s, ms) ==
    IF ms = <<>> THEN <<>>
    ELSE <<Parameter(Slice(s, Head(ms).gs, Head(ms).ge), Head(ms).ms,
                     Head(ms).ms + (Head(ms).me - Head(ms).ms), "option", "frame")>>
         \o FrameParams(s, Tail(ms))

find_time_and_numeric_parameters(s) ==
    LET n == Len(s)
        D == 0..(n - 1)
    IN  MatchParams(s, FindIter([i \in D |-> TimecodeAt(s, i)], 0, n), "option", "time")
        \o FrameParams(s, FindIter([i \in D |-> FrameAt(s, i)], 0, n))

-----------------------------------------------------------------------------
(* Overlap resolution *)

\* a table that ranks every kind alike
FlatSpecificity(param_type) == 0

\* the specificity table of _deduplicate_parameters; kinds not in the table
\* (option) get 0
Specificity(param_type) ==
    CASE param_type = "file" -> 3
      [] param_type = "placeholder" -> 2
      [] param_type = "path" -> 1
      [] OTHER -> 0

\* the overlap test of _deduplicate_parameters
Overlaps(param, existing) ==
    param.start_pos < existing.end_pos /\ param.end_pos > existing.start_pos

\* sorted(parameters, key=lambda p: p.start_pos): stable
RECURSIVE InsertByStart(_, _)
InsertByStart(sorted, p) ==
    IF sorted = <<>> THEN <<p>>
    ELSE IF sorted[Len(sorted)].start_pos <= p.start_pos THEN Append(sorted, p)
    ELSE Append(InsertByStart(SubSeq(sorted, 1, Len(sorted) - 1), p),
                sorted[Len(sorted)])

RECURSIVE SortFrom(_, _)
SortFrom(sorted, ps) ==
    IF ps = <<>> THEN sorted
    ELSE SortFrom(InsertByStart(sorted, Head(ps)), Tail(ps))

SortByStart(ps) == SortFrom(<<>>, ps)

\* list.remove(x): drops the first element equal to x
RECURSIVE RemoveFirst(_, _)
RemoveFirst(ps, x) ==
    IF ps = <<>> THEN <<>>
    ELSE IF Head(ps) = x THEN Tail(ps)
    ELSE <<Head(ps)>> \o RemoveFirst(Tail(ps), x)

\* a sweep step that accepts every candidate
SweepStepKeepAll(accepted, param) == Append(accepted, param)

\* one iteration of the sweep: param against the accepted list. Only the
\* first accepted parameter that overlaps is looked at (the inner loop
\* breaks there).
SweepStep(accepted, param) ==
    LET hits == {k \in 1..Len(accepted) : Overlaps(param, accepted[k])}
    IN  IF hits = {} THEN Append(accepted, param)
        ELSE LET existing == accepted[Min(hits)]
             IN  IF Specificity(param.param_type) > Specificity(existing.param_type)
                 THEN Append(RemoveFirst(accepted, existing), param)
                 ELSE accepted

RECURSIVE Sweep(_, _)
Sweep(accepted, ps) ==
    IF ps = <<>> THEN accepted
    ELSE Sweep(SweepStep(accepted, Head(ps)), Tail(ps))

deduplicate_parameters(ps) ==
    IF ps = <<>> THEN ps ELSE Sweep(<<>>, SortByStart(ps))

\* the five strategies in the order detect_parameters runs them
AllCandidates(s) ==
    find_file_parameters(s)
    \o find_placeholder_parameters(s)
    \o find_path_parameters(s)
    \o find_option_parameters(s)
    \o find_time_and_numeric_parameters(s)

detect_parameters(s) == SortByStart(deduplicate_parameters(AllCandidates(s)))

-----------------------------------------------------------------------------
(* Command texts *)

\* the words commands are built from
Tokens == {
    <<"l", "s">>,
    <<"a", ".", "g", "o">>,
    <<"\"", "a", ".", "g", "o", "\"">>,
    <<"\"", "a", " ", "b", ".", "g", "o", "\"">>,
    <<"a", ".", "t", "x", "t">>,
    <<"{", "x", "}">>,
    <<"d", "i", "r">>,
    <<"-", "i">>,
    <<"n", "=", "5">>,
    <<"0", ":", "0", "0", ":", "0", "5">> }

\* " ".join(ts)
RECURSIVE Join(_)
Join(ts) ==
    IF Len(ts) = 1 THEN ts[1]
    ELSE ts[1] \o <<" ">> \o Join(Tail(ts))

\* the commands of at most n words
CommandsUpTo(n) == {Join(ts) : ts \in UNION {[1..k -> Tokens] : k \in 1..n}}

\* the commands a customization session is run on
SessionCommands == {c \in CommandsUpTo(MaxTokens) : Len(c) <= MaxSessionLen}

-----------------------------------------------------------------------------
(* Apply and render *)

NoParams == <<>>

\* the empty edit map {}
NoEdits == <<>>

\* changes with changes[i] = v
SetEdit(changes, i, v) ==
    [k \in DOMAIN changes \cup {i} |-> IF k = i THEN v ELSE changes[k]]

\* changes after del changes[i]
DelEdit(changes, i) == [k \in DOMAIN changes \ {i} |-> changes[k]]

\* new_values.get(idx, param.original_value)
EffectiveValue(params, changes, idx) ==
    IF idx \in DOMAIN changes THEN changes[idx] ELSE params[idx + 1].original_value

\* the loop of _apply_parameter_changes over sorted(changes.keys(),
\* reverse=True): the largest index first
RECURSIVE ApplyKeys(_, _, _, _)
ApplyKeys(modified_command, params, changes, keys) ==
    IF keys = {} THEN modified_command
    ELSE LET i == Max(keys)
             param == params[i + 1]
         IN  ApplyKeys(SliceTo(modified_command, param.start_pos)
                         \o changes[i]
                         \o SliceFrom(modified_command, param.end_pos),
                       params, changes, keys \ {i})

\* apply that rewrites every parameter, edited or not, with its effective
\* value
ApplyAllParameters(cmd, params, changes) ==
    ApplyKeys(cmd, params,
              [i \in 0..(Len(params) - 1) |-> EffectiveValue(params, changes, i)],
              0..(Len(params) - 1))

apply_parameter_changes(cmd, params, changes) ==
    ApplyKeys(cmd, params, changes, DOMAIN changes)

\* sorted(range(len(parameters)), key=lambda i: parameters[i].start_pos)
RECURSIVE InsertIndex(_, _, _)
InsertIndex(sorted, idx, params) ==
    IF sorted = <<>> THEN <<idx>>
    ELSE IF params[sorted[Len(sorted)] + 1].start_pos <= params[idx + 1].start_pos
         THEN Append(sorted, idx)
    ELSE Append(InsertIndex(SubSeq(sorted, 1, Len(sorted) - 1), idx, params),
                sorted[Len(sorted)])

RECURSIVE SortedIndicesFrom(_, _, _)
SortedIndicesFrom(sorted, idx, params) ==
    IF idx >= Len(params) THEN sorted
    ELSE SortedIndicesFrom(InsertIndex(sorted, idx, params), idx + 1, params)

SortedParamIndices(params) == SortedIndicesFrom(<<>>, 0, params)

\* the inner loop of _build_live_command: the offset of parameter idx, summed
\* over the entries of the sorted index list up to the first one >= idx
RECURSIVE OffsetBefore(_, _, _, _, _)
OffsetBefore(order, k, idx, params, changes) ==
    IF k > Len(order) \/ order[k] >= idx THEN 0
    ELSE (IF params[order[k] + 1].start_pos < params[idx + 1].start_pos
          THEN Len(EffectiveValue(params, changes, order[k]))
               - Len(params[order[k] + 1].original_value)
          ELSE 0)
         + OffsetBefore(order, k + 1, idx, params, changes)

\* an entry of working_params: (idx, current_value, actual_start, actual_end)
WorkingParam(idx, params, changes, order) ==
    LET current_value == EffectiveValue(params, changes, idx)
        actual_start == params[idx + 1].start_pos
                        + OffsetBefore(order, 1, idx, params, changes)
    IN  [idx |-> idx, current_value |-> current_value,
         actual_start |-> actual_start,
         actual_end |-> actual_start + Len(current_value)]

\* working_params.sort(key=lambda x: x[2]): stable
RECURSIVE InsertWorking(_, _)
InsertWorking(sorted, w) ==
    IF sorted = <<>> THEN <<w>>
    ELSE IF sorted[Len(sorted)].actual_start <= w.actual_start THEN Append(sorted, w)
    ELSE Append(InsertWorking(SubSeq(sorted, 1, Len(sorted) - 1), w),
                sorted[Len(sorted)])

RECURSIVE WorkingParams(_, _, _, _, _)
WorkingParams(sorted, k, order, params, changes) ==
    IF k > Len(order) THEN sorted
    ELSE WorkingParams(InsertWorking(sorted,
                           WorkingParam(order[k], params, changes, order)),
                       k + 1, order, params, changes)

\* the rendering loop: the text between the parameters is cut out of the
\* command with all changes applied
RECURSIVE RenderFrom(_, _, _, _)
RenderFrom(current_command, working, k, last_end) ==
    IF k > Len(working)
    THEN (IF last_end < Len(current_command)
          THEN SliceFrom(current_command, last_end) ELSE <<>>)
    ELSE (IF working[k].actual_start > last_end
          THEN Slice(current_command, last_end, working[k].actual_start)
          ELSE <<>>)
         \o working[k].current_value
         \o RenderFrom(current_command, working, k + 1, working[k].actual_end)

\* the display spans _build_live_command computes, in rendering order
DisplaySpans(params, changes) ==
    WorkingParams(<<>>, 1, SortedParamIndices(params), params, changes)

\* the plain text of the Text that _build_live_command returns
build_live_command(cmd, params, changes) ==
    LET current_command == IF DOMAIN changes # {}
                           THEN apply_parameter_changes(cmd, params, changes)
                           ELSE cmd
    IN  RenderFrom(current_command, DisplaySpans(params, changes), 1, 0)

-----------------------------------------------------------------------------
(* External hints and the merge of customize_command *)

\* a hint record {name, spanStart, spanEnd}: a span field is None when the
\* key is missing, null or not an integer
Hint(spanStart, spanEnd) ==
    [is_dict |-> TRUE, name |-> <<"N", "m">>, spanStart |-> spanStart,
     spanEnd |-> spanEnd]

\* an element of the hint list that is no dict (_parse_commands_json does
\* not look at the elements): p.get raises AttributeError
Malformed ==
    [is_dict |-> FALSE, name |-> <<>>, spanStart |-> None, spanEnd |-> None]

\* the Parameter the merge loop builds from a hint
HintParameter(cmd, p) ==
    LET valid == /\ p.spanStart # None
                 /\ p.spanEnd # None
                 /\ 0 <= p.spanStart[1]
                 /\ p.spanStart[1] < p.spanEnd[1]
                 /\ p.spanEnd[1] <= Len(cmd)
    IN  Parameter(IF valid THEN Slice(cmd, p.spanStart[1], p.spanEnd[1]) ELSE p.name,
                  IF p.spanStart # None THEN p.spanStart[1] ELSE 0,
                  IF p.spanEnd # None THEN p.spanEnd[1] ELSE 0,
                  "option", "hint")

\* the for loop over the hints: it appends until an element raises
RECURSIVE MergeLoop(_, _, _)
MergeLoop(cmd, acc, hints) ==
    IF hints = <<>> THEN [raised |-> FALSE, params |-> acc]
    ELSE IF ~Head(hints).is_dict THEN [raised |-> TRUE, params |-> acc]
    ELSE MergeLoop(cmd, Append(acc, HintParameter(cmd, Head(hints))), Tail(hints))

\* the first try block of customize_command: the exception is swallowed and
\* leaves the list as the loop left it, neither deduplicated nor sorted
MergePreset(cmd, params, hints) ==
    IF hints = <<>> THEN params
    ELSE LET m == MergeLoop(cmd, params, hints)
         IN  IF m.raised THEN m.params
             ELSE SortByStart(deduplicate_parameters(m.params))

\* how.py:304 always passes the client and the query text
LlmClientConfigured == TRUE

\* the second try block: asked only if nothing was found and no hint came
\* with the command; llm is what ask_for_parameters does
FallbackWanted(params, hints) ==
    params = <<>> /\ hints = <<>> /\ LlmClientConfigured

MergeFallback(cmd, params, llm) ==
    IF llm.raised THEN params
    ELSE LET m == MergeLoop(cmd, params, llm.params)
         IN  IF m.params = <<>> THEN m.params
             ELSE SortByStart(deduplicate_parameters(m.params))

\* what ask_for_parameters can do: raise, or return cleaned records
LlmResponses ==
    {[raised |-> TRUE, params |-> <<>>]}
    \cup {[raised |-> FALSE, params |-> l] :
            l \in {<<>>, <<Hint(Some(0), Some(2))>>, <<Hint(None, None)>>}}

\* the list customize_command ends up with at its emptiness test
SessionParameters(cmd, hints, llm) ==
    LET merged == MergePreset(cmd, detect_parameters(cmd), hints)
    IN  IF FallbackWanted(merged, hints) THEN MergeFallback(cmd, merged, llm)
        ELSE merged

\* the hint lists a command is tried with
PresetLists == {
    <<>>,
    <<Hint(Some(0), Some(2))>>,
    <<Hint(None, None)>>,
    <<Hint(Some(3), Some(1))>>,
    <<Hint(Some(2), Some(99))>>,
    <<Malformed>>,
    <<Hint(Some(0), Some(2)), Malformed>>,
    <<Hint(Some(5), Some(7)), Hint(Some(0), Some(2))>> }

-----------------------------------------------------------------------------
(* Text entry and clipboard inputs *)

\* str.strip()
RECURSIVE LStrip(_)
LStrip(t) == IF t # <<>> /\ IsSpace(Head(t)) THEN LStrip(Tail(t)) ELSE t

RECURSIVE RStrip(_)
RStrip(t) ==
    IF t # <<>> /\ IsSpace(t[Len(t)]) THEN RStrip(SubSeq(t, 1, Len(t) - 1)) ELSE t

Strip(t) == RStrip(LStrip(t))

\* lines the user may submit in the text entry, besides the prefilled text
\* and the original value
TypedLines == {<<>>, <<"z", " ">>, <<"y", "y", "y", "y", "y", "y">>}

\* what pyperclip.paste() may return, besides the original value
ClipboardTexts == {<<>>, <<" ">>, <<"z", " ">>}

\* payloads of a bracketed paste, besides the original value
PastePayloads == {<<>>, <<"y", "y", "y", "y", "y", "y">>}

\* the text edit_command returns when the user rewrites the command
EditedCommand == <<"l", "s">>

-----------------------------------------------------------------------------
(* The program: command selection (how.py, interactive.py) and the          *)
(* customization session (parameters.py)                                    *)

\* the directory the program is started in
StartDir == "start"

\* nothing of executor.py, background.py and config.py is in use
OutsideIdle ==
    /\ selection = <<>>
    /\ cwd = StartDir
    /\ threads = <<>>
    /\ jobs = <<>>
    /\ job_queue = <<>>
    /\ config = <<>>

\* the terminal as the session finds it: cursor shown, bracketed paste off,
\* cooked mode
TerminalReleased ==
    [cursor_hidden |-> FALSE, bracketed_paste |-> FALSE, raw |-> FALSE]

\* the terminal while _get_key waits for a key: cursor hidden
\* ("\033[?25l"), bracketed paste on ("\x1b[?2004h"), tty.setraw
TerminalAtKeyRead ==
    [cursor_hidden |-> TRUE, bracketed_paste |-> TRUE, raw |-> TRUE]

\* the terminal while _edit_parameter_value reads a line: the key read has
\* returned, the cursor is shown for the entry
TerminalInTextEntry ==
    [cursor_hidden |-> FALSE, bracketed_paste |-> FALSE, raw |-> FALSE]

\* the byte 0x1b, one element of the input like any other character
ESC == "ESC"

\* the byte 0x03, what Ctrl+C sends in raw mode
CtrlC == "ETX"

\* str.isprintable() on a character of the input
IsPrintable(c) == c \notin {ESC, CtrlC, "\t", "\r"}

\* sys.stdin.read(n): at most n characters of what has arrived; a read with
\* VMIN = 0 that finds fewer returns them when the 0.1 s timer expires
Take(buf, n) == SubSeq(buf, 1, Min({n, Len(buf)}))

\* what sys.stdin.read(n) leaves
Drop(buf, n) == SubSeq(buf, Min({n, Len(buf)}) + 1, Len(buf))

\* the string '__PASTE__'
PasteSignal == <<"_", "_", "P", "A", "S", "T", "E", "_", "_">>

\* a key that is a str
StrKey(s) == [tuple |-> FALSE, str |-> s, text |-> <<>>]

\* the key ('__PASTE__', text)
PasteKey(text) == [tuple |-> TRUE, str |-> PasteSignal, text |-> text]

NoKey == StrKey(<<>>)

\* no key read in progress
ReaderIdle ==
    [pc |-> "idle", input |-> <<>>, stdin |-> <<>>, later |-> <<>>,
     clipboard |-> None, key |-> NoKey, pasted |-> <<>>, burst |-> <<>>]

NoResult == [outcome |-> "", final_command |-> <<>>]

Cancelled == [outcome |-> "Cancelled", final_command |-> <<>>]

Commit(final_command) == [outcome |-> "Commit", final_command |-> final_command]

Init ==
    /\ command \in SessionCommands
    /\ preset \in PresetLists
    /\ pc = "select"
    /\ detected = NoParams
    /\ parameters = NoParams
    /\ selected_param_index = 0
    /\ new_values = NoEdits
    /\ prefill = <<>>
    /\ preview = <<>>
    /\ result = NoResult
    /\ executed = None
    /\ copied = None
    /\ exited = ""
    /\ cands = <<>>
    /\ deduped = <<>>
    /\ terminal = TerminalReleased
    /\ spawned = FALSE
    /\ reader = ReaderIdle
    /\ OutsideIdle

\* the locals of a finished customize_command call
SessionClosed ==
    /\ detected' = NoParams
    /\ parameters' = NoParams
    /\ selected_param_index' = 0
    /\ new_values' = NoEdits
    /\ prefill' = <<>>
    /\ preview' = <<>>

\* Esc or Ctrl+C in the selector: select_command returns None and how.py
\* returns
SelectCancel ==
    /\ pc = "select"
    /\ pc' = "done"
    /\ exited' = "quit"
    /\ UNCHANGED <<command, preset, detected, parameters, selected_param_index,
                   new_values, prefill, preview, result, executed, copied,
                   cands, deduped>>
    /\ UNCHANGED <<terminal, spawned, reader>>
    /\ UNCHANGED outside

\* Enter in the selector on a command without detected parameters: action
\* 'execute'. The list view (select_command) looks at the detected
\* parameters only; the single-command view also looks at the hints and is
\* CustomizeCommand when there are any.
SelectExecute ==
    /\ pc = "select"
    /\ detect_parameters(command) = <<>>
    /\ executed' = Some(command)
    /\ pc' = "done"
    /\ exited' = "break"
    /\ UNCHANGED <<command, preset, detected, parameters, selected_param_index,
                   new_values, prefill, preview, result, copied, cands, deduped>>
    /\ UNCHANGED <<terminal, spawned, reader>>
    /\ UNCHANGED outside

\* c in the selector: copy_command, which may find no clipboard
SelectCopy ==
    /\ pc = "select"
    /\ \E clipboard_ok \in BOOLEAN :
          copied' = IF clipboard_ok THEN Some(command) ELSE copied
    /\ pc' = "done"
    /\ exited' = "break"
    /\ UNCHANGED <<command, preset, detected, parameters, selected_param_index,
                   new_values, prefill, preview, result, executed, cands, deduped>>
    /\ UNCHANGED <<terminal, spawned, reader>>
    /\ UNCHANGED outside

\* m in the selector: edit_command returns the command or a rewritten one,
\* which is executed
SelectEdit ==
    /\ pc = "select"
    /\ \E edited \in {command, EditedCommand} : executed' = Some(edited)
    /\ pc' = "done"
    /\ exited' = "break"
    /\ UNCHANGED <<command, preset, detected, parameters, selected_param_index,
                   new_values, prefill, preview, result, copied, cands, deduped>>
    /\ UNCHANGED <<terminal, spawned, reader>>
    /\ UNCHANGED outside

\* Enter in the selector on a command with detected parameters (either
\* view) or with hints (single-command view): action 'parameters',
\* customize_command up to the first key read
CustomizeCommand ==
    /\ pc = "select"
    /\ LET found == detect_parameters(command)
           merged == MergePreset(command, found, preset)
       IN  /\ preset # <<>> \/ found # <<>>
           /\ \E llm \in (IF FallbackWanted(merged, preset) THEN LlmResponses
                          ELSE {[raised |-> TRUE, params |-> <<>>]}) :
                 LET ps == IF FallbackWanted(merged, preset)
                           THEN MergeFallback(command, merged, llm)
                           ELSE merged
                 IN  /\ detected' = found
                     /\ parameters' = ps
                     /\ pc' = IF ps = <<>> THEN "no_parameters" ELSE "viewing"
                     /\ preview' = IF ps = <<>> THEN <<>>
                                   ELSE build_live_command(command, ps, NoEdits)
    /\ selected_param_index' = 0
    /\ new_values' = NoEdits
    /\ prefill' = <<>>
    /\ result' = NoResult
    /\ UNCHANGED <<command, preset, executed, copied, exited, cands, deduped>>
    /\ terminal' = IF pc' = "viewing" THEN TerminalAtKeyRead ELSE terminal
    /\ spawned' = (pc' = "viewing")
    /\ UNCHANGED reader
    /\ UNCHANGED outside

\* a prompt that returns None instead of the command
NoParametersCancel ==
    /\ pc = "no_parameters"
    /\ result' = Cancelled
    /\ pc' = "select"
    /\ SessionClosed
    /\ UNCHANGED <<command, preset, executed, copied, exited, cands, deduped>>
    /\ UNCHANGED <<terminal, spawned, reader>>
    /\ UNCHANGED outside

\* Enter at "Press Enter to continue...": customize_command returns the
\* command and how.py executes it
NoParametersContinue ==
    /\ pc = "no_parameters"
    /\ result' = Commit(command)
    /\ executed' = IF command # <<>> THEN Some(command) ELSE executed
    /\ pc' = IF command # <<>> THEN "done" ELSE "select"
    /\ exited' = IF command # <<>> THEN "break" ELSE exited
    /\ SessionClosed
    /\ UNCHANGED <<command, preset, copied, cands, deduped>>
    /\ UNCHANGED <<terminal, spawned, reader>>
    /\ UNCHANGED outside

\* Ctrl+C or end of input at that prompt: the exception leaves
\* customize_command and ends how.py
NoParametersInterrupt ==
    /\ pc = "no_parameters"
    /\ pc' = "done"
    /\ exited' = "interrupt"
    /\ SessionClosed
    /\ UNCHANGED <<command, preset, result, executed, copied, cands, deduped>>
    /\ UNCHANGED <<terminal, spawned, reader>>
    /\ UNCHANGED outside

\* a commit that forgets the edits
FinalCommandWithoutEdits == command

\* the string _navigate_parameters returns after the loop
FinalCommand ==
    IF DOMAIN new_values # {}
    THEN apply_parameter_changes(command, parameters, new_values)
    ELSE command

\* the next loop iteration prints the preview of the state it finds
Redisplay ==
    preview' = build_live_command(command, parameters, new_values')

\* a cancel key that leaves the loop the way Enter does
KeyCancelCommits ==
    /\ pc = "viewing"
    /\ result' = Commit(FinalCommand)
    /\ executed' = Some(FinalCommand)
    /\ pc' = "done"
    /\ exited' = "break"
    /\ SessionClosed
    /\ UNCHANGED <<command, preset, copied, cands, deduped>>
    /\ terminal' = TerminalReleased
    /\ UNCHANGED <<spawned, reader>>
    /\ UNCHANGED outside

\* q, Esc or Ctrl+C while viewing: _navigate_parameters returns None and
\* how.py continues its loop with the selector
KeyCancel ==
    /\ pc = "viewing"
    /\ result' = Cancelled
    /\ pc' = "select"
    /\ SessionClosed
    /\ UNCHANGED <<command, preset, executed, copied, exited, cands, deduped>>
    /\ terminal' = TerminalReleased
    /\ UNCHANGED <<spawned, reader>>
    /\ UNCHANGED outside

\* a Tab that also discards the edits
KeyTabDropsEdits ==
    /\ pc = "viewing"
    /\ selected_param_index' = (selected_param_index + 1) % Len(parameters)
    /\ new_values' = NoEdits
    /\ UNCHANGED <<command, preset, pc, detected, parameters, prefill,
                   preview, result, executed, copied, exited, cands, deduped>>
    /\ UNCHANGED <<terminal, spawned, reader>>
    /\ UNCHANGED outside

\* Tab
KeyTab ==
    /\ pc = "viewing"
    /\ selected_param_index' = (selected_param_index + 1) % Len(parameters)
    /\ UNCHANGED <<command, preset, pc, detected, parameters, new_values, prefill,
                   preview, result, executed, copied, exited, cands, deduped>>
    /\ UNCHANGED <<terminal, spawned, reader>>
    /\ UNCHANGED outside

\* Shift+Tab
KeyShiftTab ==
    /\ pc = "viewing"
    /\ selected_param_index' = (selected_param_index - 1) % Len(parameters)
    /\ UNCHANGED <<command, preset, pc, detected, parameters, new_values, prefill,
                   preview, result, executed, copied, exited, cands, deduped>>
    /\ UNCHANGED <<terminal, spawned, reader>>
    /\ UNCHANGED outside

\* Enter while viewing: the loop breaks, the final command is returned and
\* how.py executes it
KeyEnter ==
    /\ pc = "viewing"
    /\ LET final_command == FinalCommand
       IN  /\ result' = Commit(final_command)
           /\ executed' = IF final_command # <<>> THEN Some(final_command)
                          ELSE executed
           /\ pc' = IF final_command # <<>> THEN "done" ELSE "select"
           /\ exited' = IF final_command # <<>> THEN "break" ELSE exited
    /\ SessionClosed
    /\ UNCHANGED <<command, preset, copied, cands, deduped>>
    /\ terminal' = TerminalReleased
    /\ UNCHANGED <<spawned, reader>>
    /\ UNCHANGED outside

\* c while viewing: the final command is copied if pyperclip can be
\* imported, and sys.exit(0) runs in the finally clause
KeyCopy ==
    /\ pc = "viewing"
    /\ \E clipboard_ok \in BOOLEAN :
          copied' = IF clipboard_ok THEN Some(FinalCommand) ELSE copied
    /\ pc' = "done"
    /\ exited' = "sys_exit"
    /\ SessionClosed
    /\ UNCHANGED <<command, preset, result, executed, cands, deduped>>
    /\ terminal' = TerminalReleased
    /\ UNCHANGED <<spawned, reader>>
    /\ UNCHANGED outside

\* v while viewing: the clipboard content, stripped, becomes the value of
\* the selected parameter unless the clipboard is empty or unavailable
KeyPaste ==
    /\ pc = "viewing"
    /\ \E clipboard_content \in
            ClipboardTexts \cup {parameters[selected_param_index + 1].original_value} :
          new_values' = IF clipboard_content # <<>>
                        THEN SetEdit(new_values, selected_param_index,
                                     Strip(clipboard_content))
                        ELSE new_values
    /\ Redisplay
    /\ UNCHANGED <<command, preset, pc, detected, parameters, selected_param_index,
                   prefill, result, executed, copied, exited, cands, deduped>>
    /\ UNCHANGED <<terminal, spawned, reader>>
    /\ UNCHANGED outside

\* a bracketed paste while viewing: key is ('__PASTE__', pasted_text)
KeyBracketedPaste ==
    /\ pc = "viewing"
    /\ \E pasted_text \in
            PastePayloads \cup {parameters[selected_param_index + 1].original_value} :
          new_values' = IF pasted_text # <<>>
                        THEN SetEdit(new_values, selected_param_index, pasted_text)
                        ELSE new_values
    /\ Redisplay
    /\ UNCHANGED <<command, preset, pc, detected, parameters, selected_param_index,
                   prefill, result, executed, copied, exited, cands, deduped>>
    /\ UNCHANGED <<terminal, spawned, reader>>
    /\ UNCHANGED outside

\* a printable key other than q, c and v while viewing: the text entry of
\* _edit_parameter_value opens, prefilled with the current value
KeyPrintable ==
    /\ pc = "viewing"
    /\ prefill' = EffectiveValue(parameters, new_values, selected_param_index)
    /\ pc' = "editing"
    /\ UNCHANGED <<command, preset, detected, parameters, selected_param_index,
                   new_values, preview, result, executed, copied, exited, cands,
                   deduped>>
    /\ terminal' = TerminalInTextEntry
    /\ UNCHANGED <<spawned, reader>>
    /\ UNCHANGED outside

\* an edit map that keeps an entry for a value equal to the original
AfterEditKeepsEntry(changes, idx, new_value, original_value) ==
    SetEdit(changes, idx, new_value)

\* the edit map after _edit_parameter_value returned new_value
AfterEdit(changes, idx, new_value, original_value) ==
    IF new_value # original_value THEN SetEdit(changes, idx, new_value)
    ELSE IF idx \in DOMAIN changes THEN DelEdit(changes, idx)
    ELSE changes

\* the text entry is submitted: input().strip(), an empty line means the
\* original value
EditSubmit ==
    /\ pc = "editing"
    /\ \E line \in TypedLines
                   \cup {prefill, parameters[selected_param_index + 1].original_value} :
          LET original_value == parameters[selected_param_index + 1].original_value
              new_value == IF Strip(line) # <<>> THEN Strip(line) ELSE original_value
          IN  new_values' = AfterEdit(new_values, selected_param_index, new_value,
                                      original_value)
    /\ pc' = "viewing"
    /\ prefill' = <<>>
    /\ Redisplay
    /\ UNCHANGED <<command, preset, detected, parameters, selected_param_index,
                   result, executed, copied, exited, cands, deduped>>
    /\ terminal' = TerminalAtKeyRead
    /\ UNCHANGED <<spawned, reader>>
    /\ UNCHANGED outside

\* end of input or Ctrl+C in the text entry: _edit_parameter_value returns
\* None
EditAbort ==
    /\ pc = "editing"
    /\ pc' = "viewing"
    /\ prefill' = <<>>
    /\ UNCHANGED <<command, preset, detected, parameters, selected_param_index,
                   new_values, preview, result, executed, copied, exited, cands,
                   deduped>>
    /\ terminal' = TerminalAtKeyRead
    /\ UNCHANGED <<spawned, reader>>
    /\ UNCHANGED outside

\* the key read raises: input() at end of input when stdin is no terminal
\* or after a termios error (_get_key lines 950 and 1046). The exception
\* leaves _navigate_parameters through its finally clause, which shows the
\* cursor; the write that switches bracketed paste off (line 551) is
\* skipped. _get_key's own finally has reset the tty settings.
KeyReadRaises ==
    /\ pc = "viewing"
    /\ pc' = "done"
    /\ exited' = "exception"
    /\ terminal' = [cursor_hidden |-> FALSE, bracketed_paste |-> TRUE,
                    raw |-> FALSE]
    /\ SessionClosed
    /\ UNCHANGED <<command, preset, result, executed, copied, cands, deduped,
                   spawned, reader>>
    /\ UNCHANGED outside

Next ==
    \/ SelectCancel
    \/ SelectExecute
    \/ SelectCopy
    \/ SelectEdit
    \/ CustomizeCommand
    \/ NoParametersContinue
    \/ NoParametersInterrupt
    \/ KeyCancel
    \/ KeyTab
    \/ KeyShiftTab
    \/ KeyEnter
    \/ KeyCopy
    \/ KeyPaste
    \/ KeyBracketedPaste
    \/ KeyPrintable
    \/ EditSubmit
    \/ EditAbort
    \/ KeyReadRaises

Spec == Init /\ [][Next]_vars

-----------------------------------------------------------------------------
(* Detection alone: detect_parameters applied to a command *)

InitDetect ==
    /\ command \in CommandsUpTo(MaxTokens)
    /\ preset = <<>>
    /\ pc = "detect"
    /\ detected = NoParams
    /\ parameters = NoParams
    /\ selected_param_index = 0
    /\ new_values = NoEdits
    /\ prefill = <<>>
    /\ preview = <<>>
    /\ result = NoResult
    /\ executed = None
    /\ copied = None
    /\ exited = ""
    /\ cands = <<>>
    /\ deduped = <<>>
    /\ terminal = TerminalReleased
    /\ spawned = FALSE
    /\ reader = ReaderIdle
    /\ OutsideIdle

Detect ==
    /\ pc = "detect"
    /\ detected' = detect_parameters(command)
    /\ pc' = "detected"
    /\ UNCHANGED <<command, preset, parameters, selected_param_index, new_values,
                   prefill, preview, result, executed, copied, exited, cands,
                   deduped>>
    /\ UNCHANGED <<terminal, spawned, reader>>
    /\ UNCHANGED outside

NextDetect == Detect

SpecDetect == InitDetect /\ [][NextDetect]_vars

-----------------------------------------------------------------------------
(* Overlap resolution alone: _deduplicate_parameters applied to a list of   *)
(* candidates                                                                *)

Kinds == {"file", "placeholder", "path", "option"}

\* a candidate of a kind on the span [start_pos, end_pos)
Candidate(param_type, start_pos, end_pos) ==
    Parameter(<<"v">>, start_pos, end_pos, param_type, "candidate")

\* the candidates on the non-empty spans inside 0..MaxPos
Candidates ==
    {Candidate(k, ab[1], ab[2]) :
        k \in Kinds,
        ab \in {x \in (0..MaxPos) \X (0..MaxPos) : x[1] < x[2]}}

FileCandidate == Candidate("file", 2, 10)

PathCandidate == Candidate("path", 3, 9)

CandidateLists ==
    UNION {[1..k -> Candidates] : k \in 1..MaxCands}
    \cup {<<FileCandidate, PathCandidate>>, <<PathCandidate, FileCandidate>>}

InitDedup ==
    /\ cands \in CandidateLists
    /\ deduped = <<>>
    /\ pc = "dedup"
    /\ command = <<>>
    /\ preset = <<>>
    /\ detected = NoParams
    /\ parameters = NoParams
    /\ selected_param_index = 0
    /\ new_values = NoEdits
    /\ prefill = <<>>
    /\ preview = <<>>
    /\ result = NoResult
    /\ executed = None
    /\ copied = None
    /\ exited = ""
    /\ terminal = TerminalReleased
    /\ spawned = FALSE
    /\ reader = ReaderIdle
    /\ OutsideIdle

Dedup ==
    /\ pc = "dedup"
    /\ deduped' = deduplicate_parameters(cands)
    /\ pc' = "deduped"
    /\ UNCHANGED <<command, preset, detected, parameters, selected_param_index,
                   new_values, prefill, preview, result, executed, copied, exited,
                   cands>>
    /\ UNCHANGED <<terminal, spawned, reader>>
    /\ UNCHANGED outside

NextDedup == Dedup

SpecDedup == InitDedup /\ [][NextDedup]_vars

-----------------------------------------------------------------------------
(* The key reader alone: _get_key on a terminal, character by character,   *)
(* and the branch of _navigate_parameters that handles the key it returns  *)

\* what the terminal sends for one key press or one paste marker
ShiftTabBytes == <<ESC, "[", "Z">>

ArrowUpBytes == <<ESC, "[", "A">>

PasteStartBytes == <<ESC, "[", "2", "0", "0", "~">>

PasteEndBytes == <<ESC, "[", "2", "0", "1", "~">>

Chunks ==
    { <<ESC>>, ShiftTabBytes, ArrowUpBytes, PasteStartBytes, PasteEndBytes,
      <<"z">>, <<"v">>, <<"\t">>, <<"\r">> }

RECURSIVE Concat(_)
Concat(cs) == IF cs = <<>> THEN <<>> ELSE Head(cs) \o Concat(Tail(cs))

\* the inputs that have arrived when _get_key starts reading
InputsUpTo(n) == {Concat(cs) : cs \in UNION {[1..k -> Chunks] : k \in 1..n}}

\* what pyperclip.paste() returns during a key read
KeyClipboards == {None, Some(<<"z", "z", " ">>)}

\* the session the keys are read for
KeyCommand == Join(<< <<"l", "s">>, <<"a", ".", "g", "o">>, <<"a", ".", "t", "x", "t">> >>)

InitKey ==
    /\ command = KeyCommand
    /\ preset = <<>>
    /\ pc = "viewing"
    /\ detected = detect_parameters(command)
    /\ parameters = detected
    /\ selected_param_index = 0
    /\ new_values \in {NoEdits, SetEdit(NoEdits, 1, <<"y">>)}
    /\ prefill = <<>>
    /\ preview = build_live_command(command, parameters, new_values)
    /\ result = NoResult
    /\ executed = None
    /\ copied = None
    /\ exited = ""
    /\ cands = <<>>
    /\ deduped = <<>>
    /\ terminal = TerminalAtKeyRead
    /\ spawned = TRUE
    /\ \E first \in InputsUpTo(MaxChunks), rest \in Chunks \cup {<<>>},
          clipboard \in KeyClipboards :
          reader = [ReaderIdle EXCEPT !.pc = "read", !.input = first \o rest,
                                      !.stdin = first, !.later = rest,
                                      !.clipboard = clipboard]
    /\ OutsideIdle

\* the session is not touched while _get_key runs
SessionUntouched ==
    UNCHANGED <<command, preset, pc, detected, parameters, selected_param_index,
                new_values, prefill, preview, result, executed, copied, exited,
                cands, deduped, terminal, spawned, selection, cwd,
                threads, jobs, job_queue, config>>

\* more input arrives from the terminal
Arrive ==
    /\ reader.pc \in {"read", "peek", "paste", "tail", "burst"}
    /\ reader.later # <<>>
    /\ reader' = [reader EXCEPT !.stdin = @ \o reader.later, !.later = <<>>]
    /\ SessionUntouched

\* key = sys.stdin.read(1), blocking
ReadFirst ==
    /\ reader.pc = "read"
    /\ reader.stdin # <<>>
    /\ LET key == Head(reader.stdin)
       IN  reader' = [reader EXCEPT
                         !.stdin = Tail(@),
                         !.key = StrKey(<<key>>),
                         !.pc = IF key = ESC THEN "peek"
                                ELSE IF IsPrintable(key) THEN "burst"
                                ELSE "returned"]
    /\ SessionUntouched

\* the reads of the first ESC block up to the comparison with '[200~'
PeekSeq(buf) ==
    LET s1 == Take(buf, 1)
        r1 == Drop(buf, 1)
        s2 == s1 \o Take(r1, 1)
        r2 == Drop(r1, 1)
    IN  IF s1 # <<"[">> THEN [seq |-> s1, rest |-> r1]
        ELSE IF s2[Len(s2)] # "2" THEN [seq |-> s2, rest |-> r2]
        ELSE [seq |-> s2 \o Take(r2, 3), rest |-> Drop(r2, 3)]

\* after ESC: look for the bracketed-paste start marker
PeekSequence ==
    /\ reader.pc = "peek"
    /\ LET peeked == PeekSeq(reader.stdin)
       IN  reader' = [reader EXCEPT
                         !.stdin = peeked.rest,
                         !.pasted = <<>>,
                         !.pc = IF peeked.seq = Tail(PasteStartBytes) THEN "paste"
                                ELSE "tail"]
    /\ SessionUntouched

\* one iteration of the while True loop that collects the pasted text; a
\* read that times out returns '' and the iteration appends it
PasteLoop ==
    /\ reader.pc = "paste"
    /\ LET ch == Take(reader.stdin, 1)
           r1 == Drop(reader.stdin, 1)
           maybe == Take(r1, 1)
           r2 == Drop(r1, 1)
           tail == Take(r2, 4)
           r3 == Drop(r2, 4)
       IN  reader' =
              IF ch # <<ESC>>
              THEN [reader EXCEPT !.stdin = r1, !.pasted = @ \o ch]
              ELSE IF maybe # <<"[">>
              THEN [reader EXCEPT !.stdin = r2, !.pasted = @ \o ch \o maybe]
              ELSE IF tail = SubSeq(PasteEndBytes, 3, 6)
              THEN [reader EXCEPT !.stdin = r3, !.key = PasteKey(reader.pasted),
                                  !.pc = "returned"]
              ELSE [reader EXCEPT !.stdin = r3,
                                  !.pasted = @ \o <<ESC, "[">> \o tail]
    /\ SessionUntouched

\* the second ESC block: next_chars = sys.stdin.read(2)
ReadTail ==
    /\ reader.pc = "tail"
    /\ LET next_chars == Take(reader.stdin, 2)
       IN  reader' = [reader EXCEPT
                         !.stdin = Drop(@, 2),
                         !.key = IF Len(next_chars) >= 2
                                 THEN StrKey(<<ESC>> \o next_chars)
                                 ELSE StrKey(<<ESC>>),
                         !.pc = "returned"]
    /\ SessionUntouched

\* the loop that reads while select reports input, for at most n rounds
RECURSIVE BurstRead(_, _, _)
BurstRead(all_chars, buf, n) ==
    IF n = 0 \/ buf = <<>> THEN [all_chars |-> all_chars, rest |-> buf]
    ELSE IF IsPrintable(Head(buf))
    THEN BurstRead(Append(all_chars, Head(buf)), Tail(buf), n - 1)
    ELSE [all_chars |-> all_chars, rest |-> Tail(buf)]

\* clipboard and all_chars == clipboard[:len(all_chars)] and len(all_chars) > 1
BurstMatches(all_chars, clipboard) ==
    /\ clipboard # None
    /\ all_chars = Take(clipboard[1], Len(all_chars))
    /\ Len(all_chars) > 1

\* after a printable character: select tells whether more input is waiting;
\* what it sees of the characters that have arrived depends on how many of
\* them the buffered sys.stdin has already taken from the terminal
BurstCheck ==
    /\ reader.pc = "burst"
    /\ \E n \in 0..Len(reader.stdin) :
          LET read == BurstRead(reader.key.str, reader.stdin, n)
          IN  reader' = [reader EXCEPT
                            !.stdin = read.rest,
                            !.burst = IF n > 0 THEN read.all_chars ELSE <<>>,
                            !.key = IF n > 0 /\ BurstMatches(read.all_chars,
                                                             reader.clipboard)
                                    THEN StrKey(PasteSignal)
                                    ELSE @,
                            !.pc = "returned"]
    /\ SessionUntouched

\* the if/elif chain of _navigate_parameters
Dispatch(key) ==
    IF ~key.tuple /\ key.str \in {<<"q">>, <<ESC>>, <<CtrlC>>} THEN "cancel"
    ELSE IF ~key.tuple /\ key.str = <<"\t">> THEN "tab"
    ELSE IF ~key.tuple /\ key.str = ShiftTabBytes THEN "shift_tab"
    ELSE IF ~key.tuple /\ key.str = <<"\r">> THEN "enter"
    ELSE IF ~key.tuple /\ key.str = <<"c">> THEN "copy"
    ELSE IF ~key.tuple /\ key.str = <<"v">> THEN "paste_key"
    ELSE IF key.tuple THEN "bracketed_paste"
    ELSE IF Len(key.str) = 1 /\ IsPrintable(key.str[1]) THEN "edit"
    ELSE "ignored"

\* the key _get_key returned is handled by _navigate_parameters
HandleKey ==
    /\ reader.pc = "returned"
    /\ reader' = [reader EXCEPT !.pc = "handled"]
    /\ LET branch == Dispatch(reader.key)
           closed == branch \in {"cancel", "enter", "copy"}
           final_command == FinalCommand
       IN  /\ pc' = CASE branch = "cancel" -> "select"
                      [] branch \in {"enter", "copy"} -> "done"
                      [] branch = "edit" -> "editing"
                      [] OTHER -> pc
           /\ result' = CASE branch = "cancel" -> Cancelled
                          [] branch = "enter" -> Commit(final_command)
                          [] OTHER -> result
           /\ executed' = IF branch = "enter" THEN Some(final_command) ELSE executed
           /\ \E clipboard_ok \in BOOLEAN :
                 copied' = IF branch = "copy" /\ clipboard_ok
                           THEN Some(final_command) ELSE copied
           /\ exited' = CASE branch = "enter" -> "break"
                          [] branch = "copy" -> "sys_exit"
                          [] OTHER -> exited
           /\ selected_param_index' =
                 CASE closed -> 0
                   [] branch = "tab" ->
                        (selected_param_index + 1) % Len(parameters)
                   [] branch = "shift_tab" ->
                        (selected_param_index - 1) % Len(parameters)
                   [] OTHER -> selected_param_index
           /\ new_values' =
                 CASE closed -> NoEdits
                   [] branch = "paste_key" /\ reader.clipboard # None ->
                        SetEdit(new_values, selected_param_index,
                                Strip(reader.clipboard[1]))
                   [] branch = "bracketed_paste" /\ reader.key.text # <<>> ->
                        SetEdit(new_values, selected_param_index, reader.key.text)
                   [] OTHER -> new_values
           /\ prefill' = IF branch = "edit"
                         THEN EffectiveValue(parameters, new_values,
                                             selected_param_index)
                         ELSE <<>>
           /\ detected' = IF closed THEN NoParams ELSE detected
           /\ parameters' = IF closed THEN NoParams ELSE parameters
           /\ preview' = IF closed THEN <<>>
                         ELSE build_live_command(command, parameters, new_values')
           /\ terminal' = CASE closed -> TerminalReleased
                            [] branch = "edit" -> TerminalInTextEntry
                            [] OTHER -> terminal
    /\ UNCHANGED <<command, preset, cands, deduped, spawned>>
    /\ UNCHANGED outside

NextKey ==
    \/ Arrive
    \/ ReadFirst
    \/ PeekSequence
    \/ PasteLoop
    \/ ReadTail
    \/ BurstCheck
    \/ HandleKey

\* _get_key and its caller are one sequential thread: a step that can be
\* taken is taken
SpecKey == InitKey /\ [][NextKey]_vars /\ WF_vars(NextKey)

-----------------------------------------------------------------------------
(* The selection parser: CommandExecutor._parse_selection (executor.py)     *)

DigitChars == <<"0", "1", "2", "3", "4", "5", "6", "7", "8", "9">>

\* str(n)
RECURSIVE Str(_)
Str(n) ==
    IF n < 0 THEN <<"-">> \o Str(0 - n)
    ELSE IF n < 10 THEN <<DigitChars[n + 1]>>
    ELSE Str(n \div 10) \o <<DigitChars[(n % 10) + 1]>>

\* s.split(sep) for a separator of one character
RECURSIVE SplitOn(_, _)
SplitOn(s, sep) ==
    LET hits == {k \in 1..Len(s) : s[k] = sep}
    IN  IF hits = {} THEN <<s>>
        ELSE <<SubSeq(s, 1, Min(hits) - 1)>>
             \o SplitOn(SubSeq(s, Min(hits) + 1, Len(s)), sep)

\* int(t): None stands for the ValueError; int() ignores surrounding
\* whitespace (a sign or an underscore cannot occur in the texts read here)
RECURSIVE DigitsValue(_)
DigitsValue(t) ==
    IF t = <<>> THEN 0
    ELSE DigitsValue(SubSeq(t, 1, Len(t) - 1)) * 10
         + (CHOOSE d \in 0..9 : DigitChars[d + 1] = t[Len(t)])

ParseInt(t) ==
    IF Strip(t) = <<>> \/ \E k \in 1..Len(Strip(t)) : Strip(t)[k] \notin Digits
    THEN None
    ELSE Some(DigitsValue(Strip(t)))

\* the numbers one part of the selection appends to indices, as a set
\* (range(start, end + 1) is empty when end < start): None when int() or
\* the unpacking of start, end raises ValueError
PartIndices(part) ==
    IF \E k \in 1..Len(Strip(part)) : Strip(part)[k] = "-"
    THEN LET pieces == SplitOn(Strip(part), "-")
         IN  IF Len(pieces) # 2 \/ ParseInt(pieces[1]) = None
                \/ ParseInt(pieces[2]) = None
             THEN None
             ELSE Some(ParseInt(pieces[1])[1]..ParseInt(pieces[2])[1])
    ELSE IF ParseInt(part) = None THEN None
    ELSE Some({ParseInt(part)[1]})

\* sorted(set(indices))
RECURSIVE SortedSet(_)
SortedSet(S) ==
    IF S = {} THEN <<>> ELSE <<Min(S)>> \o SortedSet(S \ {Min(S)})

\* _parse_selection(selection, max_num): raised stands for the ValueError
parse_selection(text, max_num) ==
    LET parts == SplitOn(text, ",")
        found == [k \in 1..Len(parts) |-> PartIndices(parts[k])]
        indices == UNION {found[k][1] : k \in {i \in 1..Len(parts) : found[i] # None}}
    IN  IF \E k \in 1..Len(parts) : found[k] = None
        THEN [raised |-> TRUE, indices |-> <<>>]
        ELSE IF \E idx \in indices : idx < 1 \/ idx > max_num
        THEN [raised |-> TRUE, indices |-> <<>>]
        ELSE [raised |-> FALSE, indices |-> SortedSet(indices)]

\* the items a user writes: a number, or a range from lo to hi
SelectionItems ==
    [range : BOOLEAN, lo : (0 - 1)..MaxNumber, hi : (0 - 1)..MaxNumber]

\* the text of the items, separated by a comma and a blank
RECURSIVE SelectionText(_)
SelectionText(items) ==
    LET item == Head(items)
        text == IF item.range THEN Str(item.lo) \o <<"-">> \o Str(item.hi)
                ELSE Str(item.lo)
    IN  IF Len(items) = 1 THEN text
        ELSE text \o <<",", " ">> \o SelectionText(Tail(items))

InitSelection ==
    /\ command = <<>>
    /\ preset = <<>>
    /\ pc = "outside"
    /\ detected = NoParams
    /\ parameters = NoParams
    /\ selected_param_index = 0
    /\ new_values = NoEdits
    /\ prefill = <<>>
    /\ preview = <<>>
    /\ result = NoResult
    /\ executed = None
    /\ copied = None
    /\ exited = ""
    /\ cands = <<>>
    /\ deduped = <<>>
    /\ terminal = TerminalReleased
    /\ spawned = FALSE
    /\ reader = ReaderIdle
    /\ cwd = StartDir
    /\ threads = <<>>
    /\ jobs = <<>>
    /\ job_queue = <<>>
    /\ config = <<>>
    /\ \E items \in UNION {[1..n -> {i \in SelectionItems : i.range \/ i.hi = i.lo}] :
                              n \in 1..MaxItems},
          max_num \in 1..MaxNumber :
          selection = [pc |-> "called", items |-> items,
                       text |-> SelectionText(items), max_num |-> max_num,
                       raised |-> FALSE, indices |-> <<>>]

ParseSelection ==
    /\ selection.pc = "called"
    /\ LET parsed == parse_selection(selection.text, selection.max_num)
       IN  selection' = [selection EXCEPT !.pc = "returned",
                                          !.raised = parsed.raised,
                                          !.indices = parsed.indices]
    /\ UNCHANGED <<command, preset, pc, detected, parameters, selected_param_index,
                   new_values, prefill, preview, result, executed, copied, exited,
                   cands, deduped, terminal, spawned, reader, cwd, threads, jobs,
                   job_queue, config>>

SpecSelection == InitSelection /\ [][ParseSelection]_vars

(***************************************************************************)
(* CommandExecutor._execute_single_command (src/executor.py).  The process *)
(* has one working directory, cwd, shared by all of its threads.  A call   *)
(* is a record of threads: its position pc, the command, the directory     *)
(* read by os.getcwd() (original_cwd, None while the local is unbound),    *)
(* the directory the child process was started in (ran_in), and the value  *)
(* returned.  entry_cwd records cwd at the call.                           *)
(***************************************************************************)
session == <<command, preset, pc, detected, parameters, selected_param_index,
             new_values, prefill, preview, result, executed, copied, exited,
             cands, deduped, terminal, spawned, reader>>

SessionOutside ==
    /\ command = <<>>
    /\ preset = <<>>
    /\ pc = "outside"
    /\ detected = NoParams
    /\ parameters = NoParams
    /\ selected_param_index = 0
    /\ new_values = NoEdits
    /\ prefill = <<>>
    /\ preview = <<>>
    /\ result = NoResult
    /\ executed = None
    /\ copied = None
    /\ exited = ""
    /\ cands = <<>>
    /\ deduped = <<>>
    /\ terminal = TerminalReleased
    /\ spawned = FALSE
    /\ reader = ReaderIdle

\* Directories that exist and can be entered; "gone" does not exist.
AccessibleDirs == {"a", "b"}

Directories == AccessibleDirs \cup {"gone"}

\* Command objects: words is FALSE when shlex.split gives no word (an empty or
\* blank command string); exit is how the child process ends.
Commands ==
    [words : BOOLEAN,
     working_directory : {None} \cup {Some(d) : d \in Directories},
     exit : {"zero", "nonzero", "timeout"}]

check_directory_permissions(directory) == directory \in AccessibleDirs

NoCall ==
    [pc |-> "idle", job |-> None, command |-> None, entry_cwd |-> None,
     original_cwd |-> None, ran_in |-> None, returned |-> None, calls |-> 0]

\* The call itself: nothing of the body has run yet.
ExecCall(t, c, j) ==
    threads' = [threads EXCEPT ![t] =
                   [pc |-> "check_files", job |-> j, command |-> Some(c),
                    entry_cwd |-> Some(cwd), original_cwd |-> None,
                    ran_in |-> None, returned |-> None,
                    calls |-> threads[t].calls + 1]]

\* Lines 215-222: _check_file_permissions_in_command reads parts[0], which
\* raises IndexError when the command has no word; `except Exception` then
\* returns (False, message), through the finally block.
ExecCheckFiles(t) ==
    /\ threads[t].pc = "check_files"
    /\ threads' = [threads EXCEPT ![t] =
                      IF threads[t].command[1].words
                      THEN [@ EXCEPT !.pc = "getcwd"]
                      ELSE [@ EXCEPT !.pc = "finally", !.returned = Some(FALSE)]]
    /\ UNCHANGED <<session, selection, cwd, jobs, job_queue, config>>

\* Line 225: original_cwd = os.getcwd().
ExecGetcwd(t) ==
    /\ threads[t].pc = "getcwd"
    /\ threads' = [threads EXCEPT ![t] =
                      [@ EXCEPT !.original_cwd = Some(cwd),
                                !.pc = IF threads[t].command[1].working_directory
                                              = None
                                       THEN "run" ELSE "chdir"]]
    /\ UNCHANGED <<session, selection, cwd, jobs, job_queue, config>>

\* Lines 226-237: the permission check, then os.chdir(working_directory).
ExecChdir(t) ==
    /\ threads[t].pc = "chdir"
    /\ LET directory == threads[t].command[1].working_directory[1]
       IN  IF check_directory_permissions(directory)
           THEN /\ cwd' = directory
                /\ threads' = [threads EXCEPT ![t].pc = "run"]
           ELSE /\ cwd' = cwd
                /\ threads' = [threads EXCEPT ![t] =
                                  [@ EXCEPT !.pc = "finally",
                                            !.returned = Some(FALSE)]]
    /\ UNCHANGED <<session, selection, jobs, job_queue, config>>

\* Lines 239-245: subprocess.run starts the child in the working directory the
\* process has at that moment.  TimeoutExpired skips lines 248-279.
ExecRun(t) ==
    /\ threads[t].pc = "run"
    /\ LET c == threads[t].command[1]
       IN  threads' = [threads EXCEPT ![t] =
                          [@ EXCEPT !.ran_in = Some(cwd),
                                    !.returned = Some(c.exit = "zero"),
                                    !.pc = IF c.exit = "timeout"
                                              \/ c.working_directory = None
                                           THEN "finally" ELSE "restore"]]
    /\ UNCHANGED <<session, selection, cwd, jobs, job_queue, config>>

\* Lines 248-253: os.chdir(original_cwd) after the command.
ExecRestore(t) ==
    /\ threads[t].pc = "restore"
    /\ cwd' = threads[t].original_cwd[1]
    /\ threads' = [threads EXCEPT ![t].pc = "finally"]
    /\ UNCHANGED <<session, selection, jobs, job_queue, config>>

\* Lines 300-306: the finally block.  With a working directory it reads
\* original_cwd; when the local was never bound that raises UnboundLocalError,
\* which is no OSError and replaces the pending return.
ExecFinally(t) ==
    /\ threads[t].pc = "finally"
    /\ LET c == threads[t].command[1]
       IN  IF c.working_directory = None
           THEN /\ cwd' = cwd
                /\ threads' = [threads EXCEPT ![t].pc = "returned"]
           ELSE IF threads[t].original_cwd = None
           THEN /\ cwd' = cwd
                /\ threads' = [threads EXCEPT ![t] =
                                  [@ EXCEPT !.pc = "raised", !.returned = None]]
           ELSE /\ cwd' = threads[t].original_cwd[1]
                /\ threads' = [threads EXCEPT ![t].pc = "returned"]
    /\ UNCHANGED <<session, selection, jobs, job_queue, config>>

\* A program that calls _execute_single_command from its only thread.
MainThread == "main"

MaxCalls == 2

InitExec ==
    /\ SessionOutside
    /\ selection = <<>>
    /\ cwd = StartDir
    /\ threads = [t \in {MainThread} |-> NoCall]
    /\ jobs = <<>>
    /\ job_queue = <<>>
    /\ config = <<>>

ExecuteSingleCommand ==
    /\ threads[MainThread].pc \in {"idle", "returned", "raised"}
    /\ threads[MainThread].calls < MaxCalls
    /\ \E c \in Commands : ExecCall(MainThread, c, None)
    /\ UNCHANGED <<session, selection, cwd, jobs, job_queue, config>>

NextExec ==
    \/ ExecuteSingleCommand
    \/ ExecCheckFiles(MainThread)
    \/ ExecGetcwd(MainThread)
    \/ ExecChdir(MainThread)
    \/ ExecRun(MainThread)
    \/ ExecRestore(MainThread)
    \/ ExecFinally(MainThread)

SpecExec == InitExec /\ [][NextExec]_vars

(***************************************************************************)
(* JobManager (src/background.py).  jobs maps a job id to the job's        *)
(* command and status; job_queue is the queue.Queue of submitted ids.      *)
(* Each worker thread runs _worker_loop: it takes an id, and _execute_job  *)
(* reads the status, sets RUNNING, calls _execute_single_command and       *)
(* stores the outcome.  The fields cancel_returned, executions and ran_in  *)
(* of a job record what cancel_job returned and what the executor did.     *)
(***************************************************************************)
\* Two of the max_workers threads that start_workers creates.
Workers == {"w1", "w2"}

MaxJobs == 2

TerminalStatus == {"completed", "failed", "cancelled"}

InitJobs ==
    /\ SessionOutside
    /\ selection = <<>>
    /\ cwd = StartDir
    /\ threads = [w \in Workers |-> NoCall]
    /\ jobs = <<>>
    /\ job_queue = <<>>
    /\ config = <<>>

\* submit_job: the job is stored as PENDING and its id is put on the queue.
SubmitJob ==
    /\ Len(jobs) < MaxJobs
    /\ \E c \in Commands :
          jobs' = Append(jobs, [command |-> c, status |-> "pending",
                                cancel_returned |-> FALSE, executions |-> 0,
                                ran_in |-> None])
    /\ job_queue' = Append(job_queue, Len(jobs) + 1)
    /\ UNCHANGED <<session, selection, cwd, threads, config>>

\* cancel_job, the whole body under the lock: only a PENDING job is cancelled,
\* and only then the call returns True.
CancelJob ==
    /\ \E job_id \in 1..Len(jobs) :
          jobs' = IF jobs[job_id].status = "pending"
                  THEN [jobs EXCEPT ![job_id].status = "cancelled",
                                    ![job_id].cancel_returned = TRUE]
                  ELSE jobs
    /\ UNCHANGED <<session, selection, cwd, threads, job_queue, config>>

\* _worker_loop: job_id = self.job_queue.get(timeout=1).
WorkerGet(w) ==
    /\ threads[w].pc = "idle"
    /\ job_queue # <<>>
    /\ threads' = [threads EXCEPT ![w] =
                      [@ EXCEPT !.pc = "execute_job", !.job = Some(Head(job_queue))]]
    /\ job_queue' = Tail(job_queue)
    /\ UNCHANGED <<session, selection, cwd, jobs, config>>

\* _execute_job lines 273-275: the status is read through get_job, whose lock
\* is released before the comparison.
ExecuteJobCheck(w) ==
    /\ threads[w].pc = "execute_job"
    /\ threads' = [threads EXCEPT ![w] =
                      IF jobs[threads[w].job[1]].status # "pending"
                      THEN NoCall
                      ELSE [@ EXCEPT !.pc = "set_running"]]
    /\ UNCHANGED <<session, selection, cwd, jobs, job_queue, config>>

\* Lines 277-290: under the lock the status becomes RUNNING, whatever it is by
\* now; then the executor is called.
ExecuteJobStart(w) ==
    /\ threads[w].pc = "set_running"
    /\ LET job_id == threads[w].job[1]
       IN  /\ jobs' = [jobs EXCEPT ![job_id].status = "running"]
           /\ ExecCall(w, jobs[job_id].command, Some(job_id))
    /\ UNCHANGED <<session, selection, cwd, job_queue, config>>

\* Lines 292-314: COMPLETED or FAILED from the executor's result; an exception
\* out of the executor gives FAILED.
ExecuteJobFinish(w) ==
    /\ threads[w].pc \in {"returned", "raised"}
    /\ LET job_id == threads[w].job[1]
           success == threads[w].returned = Some(TRUE)
       IN  jobs' = [jobs EXCEPT ![job_id] =
                       [@ EXCEPT !.status = IF success THEN "completed" ELSE "failed",
                                 !.executions = IF threads[w].ran_in = None
                                                THEN @ ELSE @ + 1,
                                 !.ran_in = threads[w].ran_in]]
    /\ threads' = [threads EXCEPT ![w] = NoCall]
    /\ UNCHANGED <<session, selection, cwd, job_queue, config>>

NextJobs ==
    \/ SubmitJob
    \/ CancelJob
    \/ \E w \in Workers :
          \/ WorkerGet(w)
          \/ ExecuteJobCheck(w)
          \/ ExecuteJobStart(w)
          \/ ExecCheckFiles(w)
          \/ ExecGetcwd(w)
          \/ ExecChdir(w)
          \/ ExecRun(w)
          \/ ExecRestore(w)
          \/ ExecFinally(w)
          \/ ExecuteJobFinish(w)

SpecJobs == InitJobs /\ [][NextJobs]_vars

(***************************************************************************)
(* Config (src/config.py).  Python dicts are objects: config.heap is the   *)
(* sequence of the dict objects that exist, a dict being a function from   *)
(* keys to values, and a value either a plain value or the reference of    *)
(* another dict.  heap[1] is Config.DEFAULT_CONFIG; config.instances holds *)
(* the address of self.config of every Config created, and config.acting   *)
(* the instance the last operation was called on.                          *)
(***************************************************************************)
Val(v) == <<"val", v>>

Ref(address) == <<"ref", address>>

IsDict(value) == value[1] = "ref"

SetKey(dict, key, value) == (key :> value) @@ dict

\* Config.DEFAULT_CONFIG and its nested dicts, two sections with one key each.
DEFAULT_CONFIG ==
    <<[openrouter |-> Ref(2), output |-> Ref(3)],
      [model |-> Val("default")],
      [format |-> Val("default")]>>

DefaultAddress == 1

\* Contents of the config file as yaml.safe_load returns them: None for no
\* file; a nested dict is a record under "dict".
FileConfigs ==
    {None,
     Some([openrouter |-> <<"dict", [model |-> Val("file")]>>]),
     Some([custom |-> <<"dict", [name |-> Val("file")]>>])}

\* Keyword arguments of update_from_cli after key.split('.').
CliKeys ==
    {<<"openrouter", "model">>, <<"output", "format">>, <<"custom", "name">>,
     <<"verbose">>}

MaxConfigs == 2

\* _merge_config(base, override) on the heap, for the keys still to visit: a
\* dict met in both is merged in place, anything else is assigned.
RECURSIVE merge_config(_, _, _, _)
merge_config(heap, base, override, keys) ==
    IF keys = {} THEN heap
    ELSE LET key == CHOOSE k \in keys : TRUE
             value == override[key]
             merged ==
                 IF value[1] = "dict"
                 THEN IF key \in DOMAIN heap[base] /\ IsDict(heap[base][key])
                      THEN merge_config(heap, heap[base][key][2], value[2],
                                        DOMAIN value[2])
                      ELSE [Append(heap, value[2])
                               EXCEPT ![base] = SetKey(@, key, Ref(Len(heap) + 1))]
                 ELSE [heap EXCEPT ![base] = SetKey(@, key, value)]
         IN  merge_config(merged, base, override, keys \ {key})

\* update_from_cli for one keyword argument.
update_from_cli(heap, top, keys, value) ==
    IF Len(keys) = 1
    THEN [heap EXCEPT ![top] = SetKey(@, keys[1], Val(value))]
    ELSE IF keys[1] \in DOMAIN heap[top]
    THEN [heap EXCEPT ![heap[top][keys[1]][2]] = SetKey(@, keys[2], Val(value))]
    ELSE [Append(heap, (keys[2] :> Val(value)))
             EXCEPT ![top] = SetKey(@, keys[1], Ref(Len(heap) + 1))]

\* Config.get(key): None when a key of the path is missing.
RECURSIVE get(_, _, _)
get(heap, current, keys) ==
    IF keys = <<>> THEN Some(current)
    ELSE IF IsDict(current) /\ Head(keys) \in DOMAIN heap[current[2]]
    THEN get(heap, heap[current[2]][Head(keys)], Tail(keys))
    ELSE None

InitConfig ==
    /\ SessionOutside
    /\ selection = <<>>
    /\ cwd = StartDir
    /\ threads = <<>>
    /\ jobs = <<>>
    /\ job_queue = <<>>
    /\ config = [heap |-> DEFAULT_CONFIG, instances |-> <<>>, acting |-> 0]

\* Config.__init__: self.config = self.DEFAULT_CONFIG.copy(), a new top-level
\* dict holding the same nested dicts, then _load_config.
NewConfig ==
    /\ Len(config.instances) < MaxConfigs
    /\ \E file_config \in FileConfigs :
          LET copied_heap == Append(config.heap, config.heap[DefaultAddress])
              top == Len(copied_heap)
          IN  config' = [heap |-> IF file_config = None THEN copied_heap
                                  ELSE merge_config(copied_heap, top, file_config[1],
                                                    DOMAIN file_config[1]),
                         instances |-> Append(config.instances, top),
                         acting |-> Len(config.instances) + 1]
    /\ UNCHANGED <<session, selection, cwd, threads, jobs, job_queue>>

UpdateFromCli ==
    /\ \E i \in 1..Len(config.instances), keys \in CliKeys :
          config' = [config EXCEPT
                        !.heap = update_from_cli(@, config.instances[i], keys, "cli"),
                        !.acting = i]
    /\ UNCHANGED <<session, selection, cwd, threads, jobs, job_queue>>

NextConfig == NewConfig \/ UpdateFromCli

SpecConfig == InitConfig /\ [][NextConfig]_vars

-----------------------------------------------------------------------------
(* Properties *)

\* two half-open spans share a position
SpansIntersect(p, q) == p.start_pos < q.end_pos /\ q.start_pos < p.end_pos

PairwiseDisjoint(ps) ==
    \A i, j \in 1..Len(ps) : i < j => ~SpansIntersect(ps[i], ps[j])

AscendingByStart(ps) ==
    \A i \in 1..(Len(ps) - 1) : ps[i].start_pos <= ps[i + 1].start_pos

StrictlyAscendingByStart(ps) ==
    \A i \in 1..(Len(ps) - 1) : ps[i].start_pos < ps[i + 1].start_pos

\* the span lies inside the text and the value is the text of the span
SpanExact(text, p) ==
    /\ 0 <= p.start_pos
    /\ p.start_pos < p.end_pos
    /\ p.end_pos <= Len(text)
    /\ p.original_value = Slice(text, p.start_pos, p.end_pos)

\* C1: the list detect_parameters returns has pairwise non-overlapping
\* half-open spans and is sorted in strictly ascending order of start_pos.
C1_DetectedDisjointAscending ==
    pc = "detected" =>
        PairwiseDisjoint(detected) /\ StrictlyAscendingByStart(detected)

\* two parameters were returned and at least one overlapping candidate of
\* the strategies was dropped
C1_Witness ==
    /\ pc = "detected"
    /\ Len(detected) >= 2
    /\ \E i, j \in 1..Len(AllCandidates(command)) :
          /\ i < j
          /\ SpansIntersect(AllCandidates(command)[i], AllCandidates(command)[j])

\* C2: every Parameter detect_parameters returns has
\* 0 <= start_pos < end_pos <= len(command) and
\* original_value == command[start_pos:end_pos], the parameters of the
\* frame=N / n=N strategy included.
C2_DetectedSpanExact ==
    pc = "detected" =>
        \A k \in 1..Len(detected) : SpanExact(command, detected[k])

\* detect_parameters("n=5") is one parameter on [0, 3) with the value "5"
C2_Witness ==
    /\ pc = "detected"
    /\ command = <<"n", "=", "5">>
    /\ detected = <<Parameter(<<"5">>, 0, 3, "option", "frame")>>

\* the kind priorities as the policy states them
KindPriority ==
    [file |-> 3, placeholder |-> 2, path |-> 1, option |-> 0]

\* C3: of two overlapping candidates _deduplicate_parameters keeps exactly
\* the one of higher kind priority (file 3 > placeholder 2 > path 1 >
\* option 0) and, on equal priority, the one that comes first in ascending
\* start order; a candidate whose priority is higher than that of every
\* candidate overlapping it (a file or placeholder against hints, which are
\* options) is in the result; and of {file, [2,10)} and {path, [3,9)} only
\* the file candidate remains, in whichever order they are supplied.
C3_PriorityPolicy ==
    pc = "deduped" =>
        /\ (Len(cands) = 2 /\ SpansIntersect(cands[1], cands[2])) =>
              deduped =
                <<IF KindPriority[cands[1].param_type] > KindPriority[cands[2].param_type]
                  THEN cands[1]
                  ELSE IF KindPriority[cands[2].param_type]
                            > KindPriority[cands[1].param_type]
                  THEN cands[2]
                  ELSE IF cands[2].start_pos < cands[1].start_pos
                  THEN cands[2]
                  ELSE cands[1]>>
        /\ \A k \in 1..Len(cands) :
              (\A j \in 1..Len(cands) :
                  (j # k /\ SpansIntersect(cands[j], cands[k])) =>
                      KindPriority[cands[j].param_type]
                          < KindPriority[cands[k].param_type])
              => \E m \in 1..Len(deduped) : deduped[m] = cands[k]
        /\ cands \in {<<FileCandidate, PathCandidate>>,
                      <<PathCandidate, FileCandidate>>} =>
              deduped = <<FileCandidate>>

\* the path candidate was supplied first, starts later and was dropped
C3_Witness ==
    /\ pc = "deduped"
    /\ cands = <<PathCandidate, FileCandidate>>
    /\ deduped = <<FileCandidate>>

\* C4: for every command and every list of hint records, a malformed record
\* included, the parameter list handed to _navigate_parameters is pairwise
\* non-overlapping and sorted ascending by start_pos.
C4_SessionListDisjointAscending ==
    pc = "viewing" =>
        PairwiseDisjoint(parameters) /\ AscendingByStart(parameters)

\* "a.go" with the hints [{spanStart: 0, spanEnd: 2}, <no dict>]: the
\* session holds the file parameter and the hint on top of it
C4_Witness ==
    /\ pc = "viewing"
    /\ command = <<"a", ".", "g", "o">>
    /\ preset = <<Hint(Some(0), Some(2)), Malformed>>
    /\ Len(parameters) = 2
    /\ SpansIntersect(parameters[1], parameters[2])

\* C5: a hint whose span is missing, inverted or out of range never appears
\* in the parameter list given to the session: every parameter built from a
\* hint has 0 <= start_pos < end_pos <= len(command) and
\* original_value == command[start_pos:end_pos].
C5_InvalidHintsDropped ==
    pc = "viewing" =>
        \A k \in 1..Len(parameters) :
            parameters[k].strategy = "hint" => SpanExact(command, parameters[k])

\* a hint without a span is in the session's list as a parameter on [0, 0)
\* whose value is the hint's name
C5_Witness ==
    /\ pc = "viewing"
    /\ preset = <<Hint(None, None)>>
    /\ \E k \in 1..Len(parameters) :
          parameters[k] = Parameter(<<"N", "m">>, 0, 0, "option", "hint")

\* the edits applied one after the other in descending order of the
\* parameters' start_pos
RECURSIVE ApplyByStart(_, _, _, _)
ApplyByStart(text, params, changes, keys) ==
    IF keys = {} THEN text
    ELSE LET top == Max({params[k + 1].start_pos : k \in keys})
             i == Max({k \in keys : params[k + 1].start_pos = top})
         IN  ApplyByStart(SliceTo(text, params[i + 1].start_pos)
                            \o changes[i]
                            \o SliceFrom(text, params[i + 1].end_pos),
                          params, changes, keys \ {i})

\* C6: for any parameter list given to the session and any edit map,
\* _apply_parameter_changes returns the base string with the edits applied
\* in descending order of the parameters' start_pos, so that no edit shifts
\* the offsets of another.
C6_ApplyInDescendingStartOrder ==
    pc = "viewing" =>
        apply_parameter_changes(command, parameters, new_values)
            = ApplyByStart(command, parameters, new_values, DOMAIN new_values)

\* "ls a.go" with the hints [{spanStart: 0, spanEnd: 2}, <no dict>], both
\* parameters edited: the list is [file [3,7), hint [0,2)] and the edit of
\* the hint is applied first
C6_Witness ==
    /\ pc = "viewing"
    /\ command = <<"l", "s", " ", "a", ".", "g", "o">>
    /\ Len(parameters) = 2
    /\ parameters[1].start_pos > parameters[2].start_pos
    /\ DOMAIN new_values = {0, 1}
    /\ apply_parameter_changes(command, parameters, new_values)
         # ApplyByStart(command, parameters, new_values, DOMAIN new_values)

\* C7: committing with an empty edit map returns the base command
\* unchanged, apply(base, params, {}) == base, for any parameter list of a
\* session: Enter with no edits commits and executes the command as it was.
C7_EmptyEditsCommitBase ==
    /\ [](pc = "viewing" =>
            apply_parameter_changes(command, parameters, NoEdits) = command)
    /\ [][(pc = "viewing" /\ new_values = NoEdits /\ result'.outcome = "Commit")
            => (result' = Commit(command) /\ executed' = Some(command))]_vars

\* a command with two detected parameters was committed as it was
C7_Witness ==
    /\ pc = "done"
    /\ Len(detect_parameters(command)) >= 2
    /\ result = Commit(command)
    /\ executed = Some(command)

\* C8: for every parameter list the session can hold and every edit map,
\* the empty one included, the plain text of the preview of
\* _build_live_command equals the string _apply_parameter_changes returns.
C8_PreviewEqualsApply ==
    pc = "viewing" =>
        preview = apply_parameter_changes(command, parameters, new_values)

\* "n=5" with no edits is previewed as "5=5"
C8_Witness ==
    /\ pc = "viewing"
    /\ command = <<"n", "=", "5">>
    /\ new_values = NoEdits
    /\ preview = <<"5", "=", "5">>

\* C9: a cancel key in the Viewing state, after any edits and pastes, ends
\* the session with the outcome None: nothing is executed or copied, the
\* command's text stays the base string, and how.py is back in the command
\* selection without having left its loop.
C9_CancelReturnsToSelection ==
    [][KeyCancel =>
          /\ result' = Cancelled
          /\ executed' = None /\ executed = None
          /\ copied' = None /\ copied = None
          /\ command' = command
          /\ pc' = "select"
          /\ exited' = ""
          /\ new_values' = NoEdits]_vars

\* the session was cancelled and the selector is open again
C9_Witness ==
    /\ result = Cancelled
    /\ pc = "select"
    /\ executed = None
    /\ copied = None
    /\ exited = ""
    /\ detect_parameters(command) # <<>>

C11_EditMapMinimal ==
    pc \in {"viewing", "editing"} =>
        \A i \in DOMAIN new_values :
            new_values[i] # parameters[i + 1].original_value

\* a paste of the selected parameter's own value left an entry equal to the
\* original in the map
C11_Witness ==
    /\ pc = "viewing"
    /\ preset = <<>>
    /\ 0 \in DOMAIN new_values
    /\ new_values[0] = parameters[1].original_value

\* C12: Enter in the Viewing state returns exactly
\* apply(base, params, edits) for the edit map held at that moment and the
\* copy key, when the clipboard takes it, places that same string on the
\* clipboard; a session starts with an empty edit map, so no edit of
\* another session is included.
C12_CommitIsApplyOfCurrentEdits ==
    /\ [][KeyEnter =>
            result' = Commit(apply_parameter_changes(command, parameters,
                                                     new_values))]_vars
    /\ [][(KeyCopy /\ copied' # copied) =>
            copied' = Some(apply_parameter_changes(command, parameters,
                                                   new_values))]_vars
    /\ [][CustomizeCommand => new_values' = NoEdits]_vars

\* a command with an edited parameter was committed with the edit in it
C12_Witness ==
    /\ pc = "done"
    /\ result.outcome = "Commit"
    /\ result.final_command # command
    /\ executed = Some(result.final_command)
    /\ preset = <<>>
    /\ Len(detect_parameters(command)) >= 2

\* C13: the customization engine never terminates the program: the copy
\* key hands the final command back to the caller instead of calling
\* sys.exit, so the program never ends by an exit inside the session.
C13_EngineNeverExits ==
    exited # "sys_exit"

\* the copy key copied the final command and ended the program from inside
\* _navigate_parameters
C13_Witness ==
    /\ pc = "done"
    /\ exited = "sys_exit"
    /\ copied # None
    /\ result = NoResult

\* C14: a clipboard failure during the session never ends the session: if
\* the program ended through the copy key, the final command is on the
\* clipboard.
C14_ClipboardFailureKeepsSession ==
    exited = "sys_exit" => copied # None

\* pyperclip was not available at the copy key and the program ended with
\* nothing copied
C14_Witness ==
    /\ pc = "done"
    /\ exited = "sys_exit"
    /\ copied = None
    /\ executed = None

\* C17: on every exit path of the session (commit, cancel, copy, an
\* exception raised while reading a key) the terminal is released: tty
\* settings reset, cursor visible, bracketed paste off.
C17_TerminalReleasedOnExit ==
    pc \in {"select", "done"} => terminal = TerminalReleased

\* the key read raised and the program ended with bracketed paste on
C17_Witness ==
    /\ pc = "done"
    /\ exited = "exception"
    /\ terminal.bracketed_paste
    /\ ~terminal.cursor_hidden
    /\ ~terminal.raw

\* C19: between entering customize_command and its outcome the engine
\* spawns no process.
C19_NoProcessSpawned ==
    ~spawned

\* the session cleared the screen with os.system('clear') before its first
\* key read
C19_Witness ==
    /\ pc = "viewing"
    /\ spawned
    /\ new_values = NoEdits
    /\ result = NoResult

\* the quoted filenames of the command texts: the token with the quotes and
\* the inner content
QuotedNames ==
    { <<"\"", "a", ".", "g", "o", "\"">>,
      <<"\"", "a", " ", "b", ".", "g", "o", "\"">> }

\* C20: every quoted filename with a catalog extension, with or without a
\* space in it, is detected as a file parameter whose span is the inner
\* content without the quote characters.
C20_QuotedFileInnerSpan ==
    pc = "detected" =>
        \A q \in QuotedNames :
            \A i \in 0..Len(command) :
                HasPrefixAt(command, i, q) =>
                    \E k \in 1..Len(detected) :
                        /\ detected[k].param_type = "file"
                        /\ detected[k].start_pos = i + 1
                        /\ detected[k].end_pos = i + Len(q) - 1
                        /\ detected[k].original_value = SubSeq(q, 2, Len(q) - 1)

\* detect_parameters('ls "a b.go" a.go') is the unquoted a.go alone
C20_Witness ==
    /\ pc = "detected"
    /\ command = Join(<<<<"l", "s">>,
                        <<"\"", "a", " ", "b", ".", "g", "o", "\"">>,
                        <<"a", ".", "g", "o">>>>)
    /\ Len(detected) = 1
    /\ detected[1].original_value = <<"a", ".", "g", "o">>
    /\ detected[1].start_pos = 12
    /\ detected[1].end_pos = 16

\* C15: for the bytes of an arrow key and of Shift+Tab, arrived together,
\* _get_key returns the whole sequence, never a standalone Escape, and a
\* Shift+Tab selects the previous parameter and leaves the session Viewing.
C15_EscapeSequencesWhole ==
    /\ reader.pc \in {"returned", "handled"} =>
          \A bytes \in {ShiftTabBytes, ArrowUpBytes} :
              Take(reader.input, Len(bytes)) = bytes => reader.key = StrKey(bytes)
    /\ (reader.pc = "handled" /\ Take(reader.input, 3) = ShiftTabBytes) =>
          /\ pc = "viewing"
          /\ selected_param_index = Len(parameters) - 1

\* Shift+Tab alone, all three bytes arrived: the key is Esc and the session
\* is cancelled
C15_Witness ==
    /\ reader.pc = "handled"
    /\ reader.input = ShiftTabBytes
    /\ reader.key = StrKey(<<ESC>>)
    /\ pc = "select"
    /\ result = Cancelled

\* C16: once _get_key has read an ESC byte it returns, whatever follows in
\* the input and also when nothing follows.
C16_KeyReadReturns ==
    (reader.pc = "peek") ~> (reader.pc = "returned")

\* after the start marker and one pasted character the input is silent and
\* the loop keeps reading
C16_Witness ==
    /\ reader.pc = "paste"
    /\ reader.input = PasteStartBytes \o <<"z">>
    /\ reader.stdin = <<>>
    /\ reader.later = <<>>
    /\ reader.pasted = <<"z">>

\* the text of the paste the returned key stands for, if it stands for one:
\* a payload that is not empty, the characters of a burst, the clipboard
\* content without the surrounding whitespace
PastedText ==
    IF reader.key.tuple
    THEN (IF reader.key.text # <<>> THEN Some(reader.key.text) ELSE None)
    ELSE IF reader.key.str = PasteSignal THEN Some(reader.burst)
    ELSE IF reader.key.str = <<"v">> /\ reader.clipboard # None
    THEN Some(Strip(reader.clipboard[1]))
    ELSE None

\* C18: handling a bracketed paste, a burst that matches the clipboard or a
\* press of the paste key makes the pasted text the effective value of the
\* selected parameter, changes no other parameter's value and leaves the
\* session Viewing.
C18_PasteSetsSelectedValue ==
    [][(HandleKey /\ PastedText # None) =>
          /\ pc' = "viewing"
          /\ parameters' = parameters
          /\ selected_param_index' = selected_param_index
          /\ EffectiveValue(parameters, new_values', selected_param_index)
                = PastedText[1]
          /\ \A i \in 0..(Len(parameters) - 1) :
                i # selected_param_index =>
                    EffectiveValue(parameters, new_values', i)
                        = EffectiveValue(parameters, new_values, i)]_vars

\* a burst zz that matches the clipboard has been handled: no value changed
C18_Witness ==
    /\ reader.pc = "handled"
    /\ reader.key = StrKey(PasteSignal)
    /\ reader.burst = <<"z", "z">>
    /\ pc = "viewing"
    /\ new_values = NoEdits

\* the sum of len(effective_value_j) - len(original_value_j) over the
\* parameters j among the first n that start before parameter i
RECURSIVE DeltaBefore(_, _, _, _)
DeltaBefore(params, changes, i, n) ==
    IF n = 0 THEN 0
    ELSE DeltaBefore(params, changes, i, n - 1)
         + (IF params[n].start_pos < params[i + 1].start_pos
            THEN Len(EffectiveValue(params, changes, n - 1))
                 - Len(params[n].original_value)
            ELSE 0)

\* C23: the display span of parameter i starts at start_i + delta and has
\* the length of the effective value, delta being the length change of the
\* parameters that start before i; the display spans are pairwise disjoint
\* and ascending, and the preview shows the effective value inside each.
C23_DisplaySpans ==
    pc = "viewing" =>
        LET spans == DisplaySpans(parameters, new_values)
        IN  /\ \A k \in 1..Len(spans) :
                  LET i == spans[k].idx
                      value == EffectiveValue(parameters, new_values, i)
                      start == parameters[i + 1].start_pos
                               + DeltaBefore(parameters, new_values, i,
                                             Len(parameters))
                  IN  /\ spans[k].actual_start = start
                      /\ spans[k].actual_end = start + Len(value)
                      /\ Slice(preview, spans[k].actual_start,
                               spans[k].actual_end) = value
            /\ \A k \in 1..(Len(spans) - 1) :
                  spans[k].actual_end <= spans[k + 1].actual_start

\* the session on "a.go" with a hint on [0, 2) kept beside the detected
\* file: the display spans are [0, 2) and [0, 4)
C23_Witness ==
    /\ pc = "viewing"
    /\ command = <<"a", ".", "g", "o">>
    /\ Len(parameters) = 2
    /\ parameters[1].start_pos = 0 /\ parameters[1].end_pos = 4
    /\ parameters[2].start_pos = 0 /\ parameters[2].end_pos = 2
    /\ new_values = NoEdits

\* the edit map with index i set to v, or without index i when v is the
\* original value
EditsWith(changes, i, v, original_value) ==
    [k \in (DOMAIN changes \ {i}) \cup (IF v # original_value THEN {i} ELSE {})
        |-> IF k = i THEN v ELSE changes[k]]

\* C24: finishing the edit of the selected parameter with the value v
\* removes the entry of that index when v is the original value and sets it
\* to v otherwise; the other entries, the command, the parameter list and
\* the selected index stay, and the session is Viewing again. An aborted
\* edit changes none of them.
C24_EditChangesOnlySelected ==
    /\ [][EditSubmit =>
             /\ \E v \in {new_values'[k] : k \in DOMAIN new_values'}
                         \cup {parameters[selected_param_index + 1].original_value} :
                   new_values' = EditsWith(new_values, selected_param_index, v,
                                   parameters[selected_param_index + 1].original_value)
             /\ command' = command
             /\ parameters' = parameters
             /\ selected_param_index' = selected_param_index
             /\ pc' = "viewing"]_vars
    /\ [][EditAbort =>
             /\ new_values' = new_values
             /\ command' = command
             /\ parameters' = parameters
             /\ selected_param_index' = selected_param_index
             /\ preview' = preview
             /\ pc' = "viewing"]_vars

\* two parameters, both edited, the second selected and holding "z"
C24_Witness ==
    /\ pc = "viewing"
    /\ Len(parameters) = 2
    /\ selected_param_index = 1
    /\ DOMAIN new_values = {0, 1}
    /\ new_values[1] = <<"z">>
    /\ new_values[0] # <<"z">>

\* C26: when a printable key starts an edit, the text entry opens with the
\* effective value of the selected parameter followed by the typed
\* character: the character is not lost.
C26_FirstCharKept ==
    (reader.pc = "handled" /\ pc = "editing") =>
        prefill = EffectiveValue(parameters, new_values, selected_param_index)
                  \o reader.key.str

\* z typed on the selected a.go: the entry opens with a.go alone
C26_Witness ==
    /\ reader.pc = "handled"
    /\ pc = "editing"
    /\ reader.key = StrKey(<<"z">>)
    /\ reader.input = <<"z">>
    /\ prefill = <<"a", ".", "g", "o">>

\* C25: in the session the selected index is within 0..len(params)-1; Tab
\* moves it to (index + 1) mod len(params), Shift+Tab to (index - 1) mod
\* len(params), each undoing the other, len(params) Tabs lead back to the
\* start, and neither key changes the edit map or the parameter list.
C25_SelectionCycles ==
    /\ [](pc \in {"viewing", "editing"} =>
             selected_param_index \in 0..(Len(parameters) - 1))
    /\ [][KeyTab =>
             /\ selected_param_index'
                   = (selected_param_index + 1) % Len(parameters)
             /\ (selected_param_index' - 1) % Len(parameters)
                   = selected_param_index
             /\ (selected_param_index + Len(parameters)) % Len(parameters)
                   = selected_param_index
             /\ new_values' = new_values
             /\ parameters' = parameters
             /\ pc' = "viewing"]_vars
    /\ [][KeyShiftTab =>
             /\ selected_param_index'
                   = (selected_param_index - 1) % Len(parameters)
             /\ (selected_param_index' + 1) % Len(parameters)
                   = selected_param_index
             /\ new_values' = new_values
             /\ parameters' = parameters
             /\ pc' = "viewing"]_vars

\* the second of two parameters is selected and the first one is edited
C25_Witness ==
    /\ pc = "viewing"
    /\ Len(parameters) = 2
    /\ selected_param_index = 1
    /\ DOMAIN new_values = {0}

\* C30: every candidate that _deduplicate_parameters discards overlaps a
\* parameter of the returned list whose kind priority is at least its own.
C30_DiscardedIsCovered ==
    pc = "deduped" =>
        \A k \in 1..Len(cands) :
            (\A m \in 1..Len(deduped) : deduped[m] # cands[k]) =>
                \E m \in 1..Len(deduped) :
                    /\ SpansIntersect(cands[k], deduped[m])
                    /\ KindPriority[deduped[m].param_type]
                          >= KindPriority[cands[k].param_type]

\* path [0,2) shadows path [0,1) and is then replaced by file [1,2): the
\* result is the file alone and [0,1) is free
C30_Witness ==
    /\ pc = "deduped"
    /\ cands = <<Candidate("path", 0, 2), Candidate("path", 0, 1),
                 Candidate("file", 1, 2)>>
    /\ deduped = <<Candidate("file", 1, 2)>>

\* the numbers an item names: the number itself, or the numbers from lo to
\* hi inclusive
NamedBy(item) == IF item.range THEN item.lo..item.hi ELSE {item.lo}

\* C21: _parse_selection returns the sorted, duplicate-free list of exactly
\* the numbers the items and inclusive ranges name, all within 1..max_num,
\* and raises ValueError whenever a number written in the selection, an
\* end of a range included, is below 1 or above max_num.
C21_SelectionParsed ==
    selection # <<>> /\ selection.pc = "returned" =>
        LET items == selection.items
            named == UNION {NamedBy(items[k]) : k \in 1..Len(items)}
            written == UNION {{items[k].lo, items[k].hi} : k \in 1..Len(items)}
            indices == selection.indices
        IN  /\ ~selection.raised =>
                  /\ {indices[k] : k \in 1..Len(indices)} = named
                  /\ \A k \in 1..(Len(indices) - 1) : indices[k] < indices[k + 1]
                  /\ \A k \in 1..Len(indices) :
                        indices[k] \in 1..selection.max_num
            /\ (\E n \in written : n < 1 \/ n > selection.max_num) =>
                  selection.raised

\* "3-1" with two commands to select from: no error, nothing selected
C21_Witness ==
    /\ selection # <<>>
    /\ selection.pc = "returned"
    /\ selection.text = <<"3", "-", "1">>
    /\ selection.max_num = 2
    /\ ~selection.raised
    /\ selection.indices = <<>>

\* C22: when a call of _execute_single_command for a command with a working
\* directory is over, it has returned a value (it has not raised), the process
\* working directory is the one at the time of the call, the command ran, if it
\* ran, in its working directory, and with an inaccessible working directory
\* the call returned False without running the command.
C22_WorkingDirectoryRestored ==
    LET call == threads[MainThread]
    IN  call.pc \in {"returned", "raised"}
        /\ call.command[1].working_directory # None =>
            /\ call.pc = "returned"
            /\ call.returned # None
            /\ Some(cwd) = call.entry_cwd
            /\ call.ran_in \in {None, call.command[1].working_directory}
            /\ call.command[1].working_directory[1] \notin AccessibleDirs =>
                   call.returned = Some(FALSE) /\ call.ran_in = None

C22_Witness ==
    LET call == threads[MainThread]
    IN  /\ call.pc = "raised"
        /\ ~call.command[1].words
        /\ call.command[1].working_directory = Some("gone")
        /\ cwd = StartDir

\* C27: in every step of the job manager, a job for which cancel_job returned
\* True is CANCELLED and was not executed, no job has been executed more than
\* once, and a job in a terminal status keeps its status.
C27_CancelledNeverRuns ==
    [][\A job_id \in 1..Len(jobs) :
          /\ jobs'[job_id].cancel_returned =>
                 /\ jobs'[job_id].status = "cancelled"
                 /\ jobs'[job_id].executions = 0
                 /\ \A w \in Workers :
                        threads'[w].job = Some(job_id) => threads'[w].ran_in = None
          /\ jobs'[job_id].executions <= 1
          /\ jobs[job_id].status \in TerminalStatus =>
                 jobs'[job_id].status = jobs[job_id].status]_vars

C27_Witness ==
    \E job_id \in 1..Len(jobs) :
        /\ jobs[job_id].cancel_returned
        /\ jobs[job_id].status = "completed"
        /\ jobs[job_id].executions = 1

\* C28: a job's command is started while the process working directory is the
\* job's own working_directory, and once every submitted job has finished and
\* the workers are idle the process working directory is the one before the
\* jobs were submitted.
C28_JobsRunInOwnDirectory ==
    /\ \A w \in Workers :
          threads[w].job # None /\ threads[w].ran_in # None
              /\ jobs[threads[w].job[1]].command.working_directory # None =>
                  threads[w].ran_in = jobs[threads[w].job[1]].command.working_directory
    /\ (/\ Len(jobs) = MaxJobs
        /\ \A job_id \in 1..Len(jobs) : jobs[job_id].status \in TerminalStatus
        /\ \A w \in Workers : threads[w].pc = "idle") => cwd = StartDir

C28_Witness ==
    /\ Len(jobs) = MaxJobs
    /\ jobs[1].command.working_directory = Some("a")
    /\ jobs[2].command.working_directory = Some("b")
    /\ \A job_id \in 1..Len(jobs) :
          jobs[job_id].status = "completed" /\ ~jobs[job_id].cancel_returned
    /\ jobs[1].ran_in = Some("b")
    /\ \A w \in Workers : threads[w].pc = "idle"
    /\ cwd = "a"

\* Values get() can be asked for in the model.
ConfigPaths ==
    CliKeys \cup {<<"openrouter">>, <<"output">>, <<"custom">>}

\* What get(path) returns: a plain value, or for a dict its content.
Read(heap, top, path) ==
    LET found == get(heap, Ref(top), path)
    IN  IF found = None THEN None
        ELSE IF IsDict(found[1]) THEN <<"dict", heap[found[1][2]]>>
        ELSE found[1]

\* C29: creating a Config, with or without a file, or calling update_from_cli
\* on one instance changes no value of Config.DEFAULT_CONFIG and no value that
\* get() returns on another instance, and a Config created without a file
\* returns the default values.
C29_ConfigsIsolated ==
    [][/\ \A path \in ConfigPaths :
              /\ Read(config'.heap, DefaultAddress, path)
                     = Read(DEFAULT_CONFIG, DefaultAddress, path)
              /\ \A i \in 1..Len(config.instances) :
                     i # config'.acting =>
                         Read(config'.heap, config.instances[i], path)
                             = Read(config.heap, config.instances[i], path)]_vars

C29_Witness ==
    /\ Len(config.instances) = 2
    /\ config.acting = 2
    /\ get(config.heap, Ref(config.instances[1]), <<"openrouter", "model">>)
           = Some(Val("file"))
    /\ get(config.heap, Ref(config.instances[2]), <<"openrouter", "model">>)
           = Some(Val("file"))
    /\ get(config.heap, Ref(DefaultAddress), <<"openrouter", "model">>)
           = Some(Val("file"))
    /\ get(config.heap, Ref(config.instances[2]), <<"verbose">>) = None

====
